---- MODULE Spec2Model ----
(***************************************************************************)
(* A model of the one-step CASSCF driver of pyscf (mcscf/mc1step.py):      *)
(* kernel, the rotate_orb_cc micro-loop generator it drives, the packing   *)
(* of the non-redundant rotation parameters, and the k-point energy        *)
(* evaluation of pbc/scf/khf.py.                                           *)
(*                                                                         *)
(* Numbers are scaled integers.  A vector or matrix whose only use in the  *)
(* driver is through its norm is represented by that norm; an orbital set  *)
(* is represented by its generation (the number of rotate_mo calls that    *)
(* produced it) and by whether it still spans the starting orbitals; a     *)
(* rotation is 0 (the identity) or 1 (any other rotation).                 *)
(***************************************************************************)
EXTENDS Integers, Sequences, FiniteSets, TLC

(***************************************************************************)
(* Bounds of the model.                                                    *)
(***************************************************************************)
MaxMacro == 2
MaxMicro == 3
MaxCalls == 2
NMO == 2
MaxNmo == 3

(***************************************************************************)
(* Program constants, in the model's units.                                *)
(***************************************************************************)
conv_tol == 2
conv_tol_grad == 10
conv_tol_ddm == conv_tol_grad * 3
NormDdmInit == 100
ConfiguredStepsize == 64

\* an optional value is the empty set (None) or a singleton
None == {}
Some(x) == {x}
The(s) == CHOOSE x \in s : TRUE

\* placeholders of values that do not exist yet
NoCI == [val |-> 0, kind |-> "none"]
NoMO == [gen |-> 0, rot |-> 0, canon |-> FALSE]
NoEris == [built |-> FALSE, mo |-> NoMO, paaa |-> None, at |-> None]
NoKf == [dm |-> 0, u |-> 0]
NoG4 == [first |-> None, again |-> None]
NoRota == [pc |-> "none", dr |-> 0, dr0 |-> 0, kf |-> NoKf, g4 |-> NoG4]
NoResult ==
    [converged |-> FALSE, e_tot |-> 0, e_ci |-> 0, ci |-> NoCI, mo |-> NoMO,
     mo_energy |-> "none"]

\* values the collaborators may return
EnergySet == {0, 1, 3}
CIVals == {0, 3}
NormSet == {4, 12}

Abs(x) == IF x < 0 THEN -x ELSE x

VARIABLES
    casscf,        \* the CASSCF object: options and the scratch attribute _max_stepsize
    ncall,         \* number of the kernel call on this object
    prior,         \* what the previous call returned (None for the first call)
    pc,            \* position of kernel
    error,         \* the exception kernel ended with, or None
    result,        \* the tuple kernel returned, or None
    did,           \* the calls made by the last step, in order
    mo, eris, e_tot, e_ci, fcivec, mo_energy,
    conv, imacro, imicro,
    norm_gorb, norm_gorb0, norm_ddm,
    casdm1, casdm1_last, casdm1_prev,
    de, elast, u, r0, max_stepsize,
    bound,         \* the late-bound local names of kernel that are bound
    rota,          \* the rotate_orb_cc generator's frame (pc "none": no generator)
    pk,            \* a pack_uniq_var / unpack_uniq_var round trip: inputs, matrix, result
    kh,            \* a call of khf.energy_elec: inputs, position, result
    cr,            \* a call of update_casdm from the micro loop: inputs, position, result
    ro,            \* the frame of a rotate_orb_cc generator, step by step
    ck,            \* a call of CASSCF.kernel: saved attributes, argument, outcome
    oc             \* a call of khf.get_occ: inputs, position, result

objvars == <<casscf, ncall, prior>>
ctlvars == <<pc, error, result, did, bound>>
civars == <<e_tot, e_ci, fcivec>>
dmvars == <<casdm1, casdm1_last, casdm1_prev, norm_ddm>>
loopvars == <<conv, imacro, imicro, de, elast, r0, max_stepsize>>
gradvars == <<norm_gorb, norm_gorb0, u>>
kvars == <<objvars, ctlvars, mo, eris, mo_energy, civars, dmvars, loopvars,
           gradvars, rota>>

(***************************************************************************)
(* Collaborators and small pieces of kernel, as operators.                 *)
(***************************************************************************)

\* an integral cache that is always that of the starting orbitals
Ao2moStale(m) == [built |-> TRUE, mo |-> NoMO, paaa |-> None, at |-> None]

\* CASSCF.ao2mo: the integral cache built from the orbitals m
ao2mo(m) == [built |-> TRUE, mo |-> m, paaa |-> None, at |-> None]

\* an update_casdm that computes the integrals only if eris has none yet
UpdateCasdmCachesOnce(e, c, m, un, k) ==
    IF c.with_dep4 /\ e.paaa = None
    THEN [e EXCEPT !.paaa = Some(un), !.at = Some(<<m.gen, k>>)]
    ELSE e

\* CASSCF.update_casdm, lines 872-880: with with_dep4 it stores the integrals
\* at the orbitals m rotated by un, the rotation of micro step k, in the
\* attribute _paaa of eris
update_casdm_eris(e, c, m, un, k) ==
    IF c.with_dep4 THEN [e EXCEPT !.paaa = Some(un), !.at = Some(<<m.gen, k>>)] ELSE e

\* gen_g_hop.gdep4, lines 111-114: the integral block of the exact gradient
\* at the orbitals m rotated by un, the rotation of micro step k
gdep4_paaa(e, m, un, k) ==
    IF e.paaa # None
    THEN [cached |-> TRUE, at |-> The(e.at), u |-> The(e.paaa)]
    ELSE [cached |-> FALSE, at |-> <<m.gen, k>>, u |-> un]

\* gen_g_hop.gorb_update, lines 118-123, as rotate_orb_cc calls it after a
\* yield: the blocks used by gorb_update(u, with_dep4) on line 306 and by
\* gorb_update(u, True) on line 329 (None where gdep4 does not run)
gorb_update_paaa(e, c, m, un, k, again) ==
    [first |-> IF c.with_dep4 THEN Some(gdep4_paaa(e, m, un, k)) ELSE None,
     again |-> IF again THEN Some(gdep4_paaa(e, m, un, k)) ELSE None]

\* a gen_g_hop that is given the density matrix the macro iteration started with
GenGHopStartDm(dm, un) == [dm |-> casdm1_last, u |-> un]

\* gen_g_hop: the density matrix and the rotation a call of it is given
gen_g_hop(dm, un) == [dm |-> dm, u |-> un]

\* fcisolver.make_rdm12: the one-particle density matrix of a CI vector
make_rdm12(ci) == 10 * ci.val

\* numpy.linalg.norm(casdm1 - other)
NormDiff(a, b) == Abs(a - b)

\* numpy.linalg.norm(u - numpy.eye(nmo))
NormT(rot) == 12 * rot

\* the product of two rotations
Compose(a, b) == IF a = 0 THEN b ELSE a

\* CASSCF.rotate_mo: numpy.dot(mo, u), a new array
rotate_mo(m, rot) ==
    [gen |-> m.gen + 1, rot |-> Compose(m.rot, rot), canon |-> m.canon /\ rot = 0]

\* casci.canonicalize: canonical orbitals, the CI vector in their basis, orbital energies
canonicalize(m, ci) ==
    [mo |-> [gen |-> m.gen + 1, rot |-> m.rot, canon |-> TRUE],
     fcivec |-> [val |-> ci.val, kind |-> "canon"],
     mo_energy |-> "eps"]

\* the energy the CI solver returns when it returns an array of roots
NonScalarE == 2

\* a casci that lets a non-scalar energy through
CasciNeverRaises(e) == FALSE

\* CASSCF.casci: not isinstance(e_ci, (float, numpy.number))
CasciRaises(e) == e.kind # "float"

\* kernel: the CASCI shortcut test
IsShortcut(c, nmo) == c.ncas = nmo /\ ~c.internal_rotation

\* kernel: the macro loop's condition
LoopCond(cv, im, c) == ~cv /\ im < c.max_cycle_macro

\* kernel: the convergence test after the exact CI solve
ConvTest(d, ng0, nddm) ==
    Abs(d) < conv_tol /\ (ng0 < conv_tol_grad /\ nddm < conv_tol_ddm)

\* a cap test that lets one step too many through
MicroCapOffByOne(imic, cap) == imic > cap

\* kernel: the micro-step cap
MicroCapReached(imic, cap) == imic >= cap

\* kernel: the local convergence check that ends the micro loop
LocalConv(nt, ng, nddm, nddm_micro) ==
    \/ nt < conv_tol_grad
    \/ /\ 2 * ng < conv_tol_grad
       /\ (10 * nddm < 4 * conv_tol_ddm \/ 10 * nddm_micro < 4 * conv_tol_ddm)

\* CASSCF.micro_cycle_scheduler
micro_cycle_scheduler(c) == c.max_cycle_micro

\* a scheduler that never goes back to the configured step size
SchedulerNeverResets(c, d) ==
    LET cur == IF c._max_stepsize = None THEN c.max_stepsize ELSE The(c._max_stepsize)
    IN  IF d > conv_tol THEN Some(cur \div 2) ELSE Some(cur)

\* CASSCF.max_stepsize_scheduler: the new value of _max_stepsize
max_stepsize_scheduler(c, d) ==
    LET cur == IF c._max_stepsize = None THEN c.max_stepsize ELSE The(c._max_stepsize)
    IN  IF d > conv_tol THEN Some(cur \div 2) ELSE Some(c.max_stepsize)

(***************************************************************************)
(* The environment.  A call that starts from the converged output of the   *)
(* previous call is at a stationary point: the gradient vanishes, the      *)
(* micro-loop yields a zero rotation and the CI solver reproduces the      *)
(* energy and the CI vector it was started from.                           *)
(***************************************************************************)
Stationary == ncall > 1

CasciOut ==
    IF Stationary
    THEN {[e |-> prior.e_tot, kind |-> "float", val |-> prior.ci.val]}
    ELSE [e : EnergySet, kind : {"float"}, val : CIVals]
            \cup {[e |-> NonScalarE, kind |-> "ndarray", val |-> 0]}

\* casci.kernel: the active-space energy is the total energy less the core energy
ECas(e) == e - 5

GradOut == IF Stationary THEN {0} ELSE NormSet

\* an inner loop whose accumulated rotation starts again at every yield
StepOutSinceYield(dr) ==
    IF Stationary THEN {<<0, 0>>}
    ELSE {s \in {0, 1} \X {0, 1} : s[2] <= s[1]}

\* ciah.davidson_cc driven by the inner loop of rotate_orb_cc: from the
\* accumulated rotation dr, the pairs <<dr after the accepted steps, dr before
\* the last accepted step>>
StepOut(dr) ==
    IF Stationary THEN {<<0, 0>>}
    ELSE {s \in {0, 1} \X {0, 1} : dr <= s[2] /\ s[2] <= s[1]}
ApproxCIOut == IF Stationary THEN {prior.ci.val} ELSE CIVals

(***************************************************************************)
(* The state after construction of the CASSCF object, before kernel runs.  *)
(***************************************************************************)
Options ==
    [canonicalization : BOOLEAN, natorb : BOOLEAN, internal_rotation : BOOLEAN,
     ncas : {NMO - 1, NMO},
     max_cycle_macro : 0..MaxMacro, max_cycle_micro : 0..MaxMicro,
     with_dep4 : BOOLEAN,
     max_stepsize : {ConfiguredStepsize}, _max_stepsize : {None}]

\* kernel's frame on entry: mo_coeff and ci0 are the arguments; a local that
\* is not bound yet holds a placeholder that no step reads before binding it
KernelEntry(m, ci) ==
    /\ pc = "start"
    /\ error = "none"
    /\ result = NoResult
    /\ did = <<>>
    /\ bound = {}
    /\ mo = m
    /\ fcivec = ci
    /\ eris = NoEris
    /\ e_tot = 0 /\ e_ci = 0 /\ mo_energy = "none"
    /\ conv = FALSE /\ imacro = 0 /\ imicro = 0
    /\ norm_gorb = 0 /\ norm_gorb0 = 0 /\ norm_ddm = 0
    /\ casdm1 = 0 /\ casdm1_last = 0 /\ casdm1_prev = 0
    /\ de = 0 /\ elast = 0 /\ u = 0
    /\ r0 = None /\ max_stepsize = 0
    /\ rota = NoRota

(***************************************************************************)
(* kernel, lines 355-359: build ERIS, solve the CI problem at the starting *)
(* orbitals.  CASSCF.casci raises on a non-scalar CI energy.               *)
(***************************************************************************)
KernelInit ==
    /\ pc = "start"
    /\ eris' = ao2mo(mo)
    /\ did' = <<"ao2mo", "casci">>
    /\ \E r \in CasciOut :
        IF CasciRaises(r)
        THEN /\ pc' = "raised"
             /\ error' = "RuntimeError"
             /\ UNCHANGED civars
        ELSE /\ pc' = "casci0"
             /\ error' = error
             /\ e_tot' = r.e
             /\ e_ci' = ECas(r.e)
             /\ fcivec' = [val |-> r.val, kind |-> "exact"]
    /\ UNCHANGED <<oc, ck, ro, pk, kh, cr, objvars, result, bound, mo, mo_energy, dmvars, loopvars,
                   gradvars, rota>>

(***************************************************************************)
(* kernel, lines 360-365: the CASCI-only shortcut.  The return statement   *)
(* is inside the canonicalization branch.                                  *)
(***************************************************************************)
ShortcutReturns(c, nmo) == IsShortcut(c, nmo) /\ c.canonicalization

ShortcutReturn ==
    /\ pc = "casci0"
    /\ ShortcutReturns(casscf, NMO)
    /\ LET c == canonicalize(mo, fcivec)
       IN  /\ mo' = c.mo
           /\ fcivec' = c.fcivec
           /\ mo_energy' = c.mo_energy
           /\ result' = [converged |-> TRUE, e_tot |-> e_tot, e_ci |-> e_ci,
                         ci |-> c.fcivec, mo |-> c.mo, mo_energy |-> c.mo_energy]
    /\ bound' = bound \cup {"mo_energy"}
    /\ did' = <<"canonicalize">>
    /\ pc' = "returned"
    /\ UNCHANGED <<oc, ck, ro, pk, kh, cr, objvars, error, eris, e_tot, e_ci, dmvars, loopvars, gradvars, rota>>

\* a loop setup that leaves the previous energy at zero
LoopSetupElastZero ==
    /\ pc = "casci0"
    /\ ~ShortcutReturns(casscf, NMO)
    /\ conv' = FALSE
    /\ norm_gorb' = -1
    /\ de' = e_tot
    /\ elast' = 0
    /\ r0' = None
    /\ casdm1' = make_rdm12(fcivec)
    /\ norm_ddm' = NormDdmInit
    /\ casdm1_prev' = casdm1'
    /\ casdm1_last' = casdm1'
    /\ imacro' = 0
    /\ did' = <<"make_rdm12">>
    /\ pc' = "while"
    /\ UNCHANGED <<oc, ck, ro, pk, kh, cr, objvars, error, result, bound, mo, eris, mo_energy, civars,
                   imicro, max_stepsize, norm_gorb0, u, rota>>

(***************************************************************************)
(* kernel, lines 367-382: the locals of the macro loop.                    *)
(***************************************************************************)
LoopSetup ==
    /\ pc = "casci0"
    /\ ~ShortcutReturns(casscf, NMO)
    /\ conv' = FALSE
    /\ norm_gorb' = -1
    /\ de' = e_tot
    /\ elast' = e_tot
    /\ r0' = None
    /\ casdm1' = make_rdm12(fcivec)
    /\ norm_ddm' = NormDdmInit
    /\ casdm1_prev' = casdm1'
    /\ casdm1_last' = casdm1'
    /\ imacro' = 0
    /\ did' = <<"make_rdm12">>
    /\ pc' = "while"
    /\ UNCHANGED <<oc, ck, ro, pk, kh, cr, objvars, error, result, bound, mo, eris, mo_energy, civars,
                   imicro, max_stepsize, norm_gorb0, u, rota>>

(***************************************************************************)
(* kernel, lines 383-389: a macro iteration starts; the schedulers run and *)
(* a fresh rotate_orb_cc generator is created (it runs nothing yet).       *)
(***************************************************************************)
MacroBegin ==
    /\ pc = "while"
    /\ LoopCond(conv, imacro, casscf)
    /\ imacro' = imacro + 1
    /\ casscf' = [casscf EXCEPT !._max_stepsize = max_stepsize_scheduler(casscf, de)]
    /\ max_stepsize' = The(casscf'._max_stepsize)
    /\ imicro' = 0
    /\ rota' = [pc |-> "new", dr |-> 0, dr0 |-> 0, kf |-> NoKf, g4 |-> NoG4]
    /\ did' = <<"micro_cycle_scheduler", "max_stepsize_scheduler", "rotate_orb_cc">>
    /\ pc' = "for"
    /\ UNCHANGED <<oc, ck, ro, pk, kh, cr, ncall, prior, error, result, bound, mo, eris, mo_energy, civars,
                   dmvars, conv, de, elast, r0, gradvars>>

\* kernel, line 383: the loop condition fails
LoopExit ==
    /\ pc = "while"
    /\ ~LoopCond(conv, imacro, casscf)
    /\ did' = <<>>
    /\ pc' = "exit"
    /\ UNCHANGED <<oc, ck, ro, pk, kh, cr, objvars, error, result, bound, mo, eris, mo_energy, civars,
                   dmvars, loopvars, gradvars, rota>>

(***************************************************************************)
(* kernel, lines 391-430: the body of the micro loop for a yielded         *)
(* rotation un with gradient norm gn: count the step, stop at the cap,     *)
(* else refresh the density matrices by update_casdm, call the callback,   *)
(* test local convergence.                                                 *)
(***************************************************************************)
MicroBody(un, gn, calls) ==
    /\ u' = un
    /\ imicro' = imicro + 1
    /\ norm_gorb' = gn
    /\ norm_gorb0' = IF imicro' = 1 THEN norm_gorb' ELSE norm_gorb0
    /\ bound' = IF imicro' = 1 THEN bound \cup {"u", "norm_gorb0"} ELSE bound
    /\ IF MicroCapReached(imicro', micro_cycle_scheduler(casscf))
       THEN /\ pc' = "endfor"
            /\ did' = calls
            /\ UNCHANGED <<fcivec, dmvars, eris>>
       ELSE \E c \in ApproxCIOut :
            /\ eris' = update_casdm_eris(eris, casscf, mo, u', imicro')
            /\ fcivec' = [val |-> c, kind |-> "approx"]
            /\ casdm1' = make_rdm12(fcivec')
            /\ norm_ddm' = NormDiff(casdm1', casdm1_last)
            /\ casdm1_prev' = casdm1'
            /\ casdm1_last' = casdm1_last
            /\ did' = calls \o <<"update_casdm", "callback">>
            /\ pc' = IF LocalConv(NormT(u'), norm_gorb', norm_ddm',
                                  NormDiff(casdm1', casdm1_prev))
                     THEN "endfor" ELSE "for"
    /\ UNCHANGED <<oc, ck, ro, pk, kh, cr, objvars, error, result, mo, mo_energy, e_tot, e_ci,
                   conv, imacro, de, elast, r0, max_stepsize>>

(***************************************************************************)
(* rotate_orb_cc, lines 212-301: the generator's first run, to its first   *)
(* yield, and the loop body for what it yields.  The inner Davidson loop   *)
(* adds the accepted steps to dr.  It yields the rotation built from dr    *)
(* and the gradient g_orb0 the run started from.                           *)
(***************************************************************************)
MicroFirst ==
    /\ pc = "for"
    /\ rota.pc = "new"
    /\ \E g \in GradOut, s \in StepOut(rota.dr) :
        /\ rota' = [pc |-> "y301", dr |-> s[1], dr0 |-> s[2],
                    kf |-> gen_g_hop(casdm1, 0), g4 |-> NoG4]
        /\ MicroBody(s[1], g, <<"gen_g_hop", "davidson_cc", "update_rotate_matrix">>)

(***************************************************************************)
(* rotate_orb_cc, lines 303-339 and 251-301: resumed after the yield of    *)
(* line 301.  The keyframe gradient is recomputed and the Davidson loop    *)
(* runs again, to the yield of line 301.                                   *)
(***************************************************************************)
MicroResume ==
    /\ pc = "for"
    /\ rota.pc = "y301"
    /\ \E g \in GradOut, s \in StepOut(rota.dr) :
        /\ rota' = [pc |-> "y301", dr |-> s[1], dr0 |-> s[2],
                    kf |-> gen_g_hop(casdm1, rota.dr),
                    g4 |-> gorb_update_paaa(eris, casscf, mo, rota.dr, imicro, TRUE)]
        /\ MicroBody(s[1], g, <<"gen_g_hop", "gorb_update", "davidson_cc",
                                "update_rotate_matrix">>)

(***************************************************************************)
(* rotate_orb_cc, lines 303-326: resumed after the yield of line 301, the  *)
(* keyframe gradient is out of the trust region and the fallback condition *)
(* holds: it yields the rotation of dr - dxi and g_kf - hdxi.              *)
(***************************************************************************)
MicroFallback ==
    /\ pc = "for"
    /\ rota.pc = "y301"
    /\ ~Stationary
    /\ \E g \in GradOut :
        /\ rota' = [rota EXCEPT !.pc = "y326", !.kf = gen_g_hop(casdm1, rota.dr),
                                !.g4 = gorb_update_paaa(eris, casscf, mo, rota.dr,
                                                        imicro, FALSE)]
        /\ MicroBody(rota.dr0, g, <<"gen_g_hop", "gorb_update", "update_rotate_matrix">>)

\* rotate_orb_cc, line 327: resumed after the yield of line 326, the generator
\* ends and so does the for loop of kernel
RotaStop ==
    /\ pc = "for"
    /\ rota.pc = "y326"
    /\ rota' = [rota EXCEPT !.pc = "done"]
    /\ did' = <<>>
    /\ pc' = "endfor"
    /\ UNCHANGED <<oc, ck, ro, pk, kh, cr, objvars, error, result, bound, mo, eris, mo_energy, civars,
                   dmvars, loopvars, gradvars>>

\* a macro iteration that keeps the CI vector of the micro loop
MacroEndKeepsApproxCI ==
    /\ pc = "endfor"
    /\ rota' = NoRota
    /\ mo' = rotate_mo(mo, u)
    /\ eris' = ao2mo(mo')
    /\ \E r \in CasciOut :
        IF CasciRaises(r)
        THEN /\ pc' = "raised"
             /\ error' = "RuntimeError"
             /\ did' = <<"close", "rotate_mo", "ao2mo", "casci">>
             /\ UNCHANGED <<civars, dmvars, conv, de, elast, r0>>
        ELSE /\ pc' = "while"
             /\ error' = error
             /\ e_tot' = r.e
             /\ e_ci' = ECas(r.e)
             /\ fcivec' = fcivec
             /\ casdm1' = make_rdm12(fcivec')
             /\ norm_ddm' = NormDiff(casdm1', casdm1_last)
             /\ casdm1_prev' = casdm1'
             /\ casdm1_last' = casdm1'
             /\ de' = e_tot' - elast
             /\ elast' = e_tot'
             /\ conv' = IF ConvTest(de', norm_gorb0, norm_ddm') THEN TRUE ELSE conv
             /\ r0' = Some(u)
             /\ did' = <<"close", "rotate_mo", "ao2mo", "casci", "make_rdm12",
                         "conv_test", "dump_chk", "callback", "pack_uniq_var">>
    /\ UNCHANGED <<oc, ck, ro, pk, kh, cr, objvars, result, bound, mo_energy, imacro, imicro,
                   max_stepsize, gradvars>>

(***************************************************************************)
(* kernel, lines 432-464: the end of a macro iteration: close the          *)
(* generator, rotate the orbitals, rebuild ERIS, solve the CI problem      *)
(* exactly, recompute the density matrices, test convergence, checkpoint,  *)
(* callback.                                                               *)
(***************************************************************************)
MacroEnd ==
    /\ pc = "endfor"
    /\ rota' = NoRota
    /\ mo' = rotate_mo(mo, u)
    /\ eris' = ao2mo(mo')
    /\ \E r \in CasciOut :
        IF CasciRaises(r)
        THEN /\ pc' = "raised"
             /\ error' = "RuntimeError"
             /\ did' = <<"close", "rotate_mo", "ao2mo", "casci">>
             /\ UNCHANGED <<civars, dmvars, conv, de, elast, r0>>
        ELSE /\ pc' = "while"
             /\ error' = error
             /\ e_tot' = r.e
             /\ e_ci' = ECas(r.e)
             /\ fcivec' = [val |-> r.val, kind |-> "exact"]
             /\ casdm1' = make_rdm12(fcivec')
             /\ norm_ddm' = NormDiff(casdm1', casdm1_last)
             /\ casdm1_prev' = casdm1'
             /\ casdm1_last' = casdm1'
             /\ de' = e_tot' - elast
             /\ elast' = e_tot'
             /\ conv' = IF ConvTest(de', norm_gorb0, norm_ddm') THEN TRUE ELSE conv
             /\ r0' = Some(u)
             /\ did' = <<"close", "rotate_mo", "ao2mo", "casci", "make_rdm12",
                         "conv_test", "dump_chk", "callback", "pack_uniq_var">>
    /\ UNCHANGED <<oc, ck, ro, pk, kh, cr, objvars, result, bound, mo_energy, imacro, imicro,
                   max_stepsize, gradvars>>

(***************************************************************************)
(* kernel, lines 466-485: after the loop.  mo_energy is bound only by the  *)
(* canonicalization branch; the natorb branch reads ncore and nocc, which  *)
(* are not names of kernel.                                                *)
(***************************************************************************)
Finish ==
    /\ pc = "exit"
    /\ LET c == canonicalize(mo, fcivec)
           m1 == IF casscf.canonicalization THEN c.mo ELSE mo
           ci1 == IF casscf.canonicalization THEN c.fcivec ELSE fcivec
           b1 == IF casscf.canonicalization THEN bound \cup {"mo_energy"} ELSE bound
           en1 == IF casscf.canonicalization THEN c.mo_energy ELSE mo_energy
       IN  /\ mo' = m1
           /\ fcivec' = ci1
           /\ mo_energy' = en1
           /\ bound' = b1
           /\ IF casscf.canonicalization /\ casscf.natorb
              THEN /\ pc' = "raised"
                   /\ error' = "NameError"
                   /\ did' = <<"canonicalize">>
                   /\ result' = result
              ELSE IF "mo_energy" \in b1
              THEN /\ pc' = "returned"
                   /\ error' = error
                   /\ did' = <<"canonicalize", "dump_chk">>
                   /\ result' = [converged |-> conv, e_tot |-> e_tot, e_ci |-> e_ci,
                                 ci |-> ci1, mo |-> m1, mo_energy |-> en1]
              ELSE /\ pc' = "raised"
                   /\ error' = "NameError"
                   /\ did' = <<"dump_chk">>
                   /\ result' = result
    /\ UNCHANGED <<oc, ck, ro, pk, kh, cr, objvars, eris, e_tot, e_ci, dmvars, loopvars, gradvars, rota>>

(***************************************************************************)
(* CASSCF.kernel, lines 693-711: the driver is called again on the same    *)
(* object, starting from the orbitals and the CI vector it returned as     *)
(* converged.                                                              *)
(***************************************************************************)
CallAgain ==
    /\ pc = "returned"
    /\ result.converged
    /\ ncall < MaxCalls
    /\ ncall' = ncall + 1
    /\ prior' = result
    /\ casscf' = casscf
    /\ pc' = "start"
    /\ error' = "none"
    /\ result' = NoResult
    /\ did' = <<>>
    /\ bound' = {}
    /\ mo' = result.mo
    /\ fcivec' = result.ci
    /\ eris' = NoEris
    /\ e_tot' = 0 /\ e_ci' = 0 /\ mo_energy' = "none"
    /\ conv' = FALSE /\ imacro' = 0 /\ imicro' = 0
    /\ norm_gorb' = 0 /\ norm_gorb0' = 0 /\ norm_ddm' = 0
    /\ casdm1' = 0 /\ casdm1_last' = 0 /\ casdm1_prev' = 0
    /\ de' = 0 /\ elast' = 0 /\ u' = 0
    /\ r0' = None /\ max_stepsize' = 0
    /\ rota' = NoRota
    /\ UNCHANGED <<oc, ck, ro, pk, kh, cr>>

(***************************************************************************)
(* CASSCF.uniq_var_indices, pack_uniq_var, unpack_uniq_var (lines 774-800) *)
(* Orbitals are numbered from 0.  A mask is the set of the index pairs     *)
(* <<p, q>> that are True; boolean-mask indexing visits them row by row.   *)
(***************************************************************************)
NoFrozen == [kind |-> "none", n |-> 0, idx |-> {}]

\* a mask whose active-active part includes the diagonal (tril_indices(ncas, 0))
UniqVarIndicesDiag(nmo, ncore, ncas, frozen, internal_rotation) ==
    LET nocc == ncore + ncas
        all == (0..(nmo - 1)) \X (0..(nmo - 1))
        m1 == {pq \in all : pq[1] \in ncore..(nocc - 1) /\ pq[2] \in 0..(ncore - 1)}
        m2 == m1 \cup {pq \in all : pq[1] \in nocc..(nmo - 1) /\ pq[2] \in 0..(nocc - 1)}
        m3 == IF internal_rotation
              THEN m2 \cup {pq \in all : /\ pq[1] \in ncore..(nocc - 1)
                                         /\ pq[2] \in ncore..(nocc - 1)
                                         /\ pq[2] <= pq[1]}
              ELSE m2
    IN  IF frozen.kind = "none" THEN m3
        ELSE IF frozen.kind = "count"
        THEN {pq \in m3 : ~(pq[1] < frozen.n) /\ ~(pq[2] < frozen.n)}
        ELSE {pq \in m3 : pq[1] \notin frozen.idx /\ pq[2] \notin frozen.idx}

\* a mask that clears the rows of the frozen orbitals but not their columns
UniqVarIndicesRows(nmo, ncore, ncas, frozen, internal_rotation) ==
    LET nocc == ncore + ncas
        all == (0..(nmo - 1)) \X (0..(nmo - 1))
        m1 == {pq \in all : pq[1] \in ncore..(nocc - 1) /\ pq[2] \in 0..(ncore - 1)}
        m2 == m1 \cup {pq \in all : pq[1] \in nocc..(nmo - 1) /\ pq[2] \in 0..(nocc - 1)}
        m3 == IF internal_rotation
              THEN m2 \cup {pq \in all : /\ pq[1] \in ncore..(nocc - 1)
                                         /\ pq[2] \in ncore..(nocc - 1)
                                         /\ pq[2] < pq[1]}
              ELSE m2
    IN  IF frozen.kind = "none" THEN m3
        ELSE IF frozen.kind = "count"
        THEN {pq \in m3 : ~(pq[1] < frozen.n)}
        ELSE {pq \in m3 : pq[1] \notin frozen.idx}

uniq_var_indices(nmo, ncore, ncas, frozen, internal_rotation) ==
    LET nocc == ncore + ncas
        all == (0..(nmo - 1)) \X (0..(nmo - 1))
        m1 == {pq \in all : pq[1] \in ncore..(nocc - 1) /\ pq[2] \in 0..(ncore - 1)}
        m2 == m1 \cup {pq \in all : pq[1] \in nocc..(nmo - 1) /\ pq[2] \in 0..(nocc - 1)}
        m3 == IF internal_rotation
              THEN m2 \cup {pq \in all : /\ pq[1] \in ncore..(nocc - 1)
                                         /\ pq[2] \in ncore..(nocc - 1)
                                         /\ pq[2] < pq[1]}
              ELSE m2
    IN  IF frozen.kind = "none" THEN m3
        ELSE IF frozen.kind = "count"
        THEN {pq \in m3 : ~(pq[1] < frozen.n) /\ ~(pq[2] < frozen.n)}
        ELSE {pq \in m3 : pq[1] \notin frozen.idx /\ pq[2] \notin frozen.idx}

\* the True entries of a mask in row-major order
RECURSIVE RowMajor(_, _)
RowMajor(mask, nmo) ==
    IF mask = {} THEN <<>>
    ELSE LET first == CHOOSE pq \in mask :
                        \A rs \in mask : pq[1] * nmo + pq[2] <= rs[1] * nmo + rs[2]
         IN  <<first>> \o RowMajor(mask \ {first}, nmo)

\* mat[idx]
pack_uniq_var(mat, nmo, ncore, ncas, frozen, internal_rotation) ==
    LET idx == RowMajor(uniq_var_indices(nmo, ncore, ncas, frozen, internal_rotation), nmo)
    IN  [i \in 1..Len(idx) |-> mat[idx[i]]]

\* mat = zeros; mat[idx] = v; mat - mat.T
unpack_uniq_var(v, nmo, ncore, ncas, frozen, internal_rotation) ==
    LET idx == RowMajor(uniq_var_indices(nmo, ncore, ncas, frozen, internal_rotation), nmo)
        all == (0..(nmo - 1)) \X (0..(nmo - 1))
        mat == [pq \in all |->
                  IF \E i \in 1..Len(idx) : idx[i] = pq
                  THEN v[CHOOSE i \in 1..Len(idx) : idx[i] = pq]
                  ELSE 0]
    IN  [pq \in all |-> mat[pq] - mat[<<pq[2], pq[1]>>]]

\* the values of the entries of a packed vector
ValSet == {-1, 2}

RECURSIVE Vectors(_)
Vectors(n) ==
    IF n = 0 THEN {<<>>}
    ELSE {Append(w, x) : w \in Vectors(n - 1), x \in ValSet}

FrozenSpecs(nmo) ==
    {NoFrozen}
        \cup {[kind |-> "count", n |-> k, idx |-> {}] : k \in 0..nmo}
        \cup {[kind |-> "list", n |-> 0, idx |-> S] : S \in (SUBSET (0..(nmo - 1))) \ {{}}}

PackIdle ==
    [pc |-> "idle", nmo |-> 1, ncore |-> 0, ncas |-> 1, internal_rotation |-> FALSE,
     frozen |-> NoFrozen, v |-> <<>>, mat |-> <<>>, out |-> <<>>]

PackInit ==
    \E nmo \in 1..MaxNmo : \E ncore \in 0..(nmo - 1) : \E ncas \in 1..(nmo - ncore) :
    \E ir \in BOOLEAN : \E fr \in FrozenSpecs(nmo) :
    \E v \in Vectors(Cardinality(uniq_var_indices(nmo, ncore, ncas, fr, ir))) :
        pk = [pc |-> "in", nmo |-> nmo, ncore |-> ncore, ncas |-> ncas,
              internal_rotation |-> ir, frozen |-> fr, v |-> v,
              mat |-> <<>>, out |-> <<>>]

Unpack ==
    /\ pk.pc = "in"
    /\ pk' = [pk EXCEPT !.pc = "unpacked",
                        !.mat = unpack_uniq_var(pk.v, pk.nmo, pk.ncore, pk.ncas,
                                                pk.frozen, pk.internal_rotation)]
    /\ UNCHANGED <<oc, ck, ro, kvars, kh, cr>>

Pack ==
    /\ pk.pc = "unpacked"
    /\ pk' = [pk EXCEPT !.pc = "packed",
                        !.out = pack_uniq_var(pk.mat, pk.nmo, pk.ncore, pk.ncas,
                                              pk.frozen, pk.internal_rotation)]
    /\ UNCHANGED <<oc, ck, ro, kvars, kh, cr>>

(***************************************************************************)
(* khf.energy_elec (pbc/scf/khf.py, lines 250-266).  A complex number is   *)
(* a record of its real and imaginary parts; imaginary parts are in units  *)
(* of 1e-11, so that the tolerance 1.e-10 is 10.                           *)
(***************************************************************************)
ImagTol == 10

ReSet == {-4, 0, 3}
ImSet == {-20, 0, 10, 20}
Complex == [re : ReSet, im : ImSet]

\* abs() of a Python bool
PyAbsBool(b) == IF b THEN 1 ELSE 0

\* line 260: abs(e_coul.imag > 1.e-10), as the truth value the if tests
EnergyElecRaises(e1, e_coul) == PyAbsBool(e_coul.im > ImagTol) # 0

KhfIdle ==
    [pc |-> "idle", e1 |-> [re |-> 0, im |-> 0], e_coul |-> [re |-> 0, im |-> 0],
     out |-> <<0, 0>>]

KhfInit ==
    \E a \in Complex, b \in Complex :
        kh = [pc |-> "call", e1 |-> a, e_coul |-> b, out |-> <<0, 0>>]

energy_elec ==
    /\ kh.pc = "call"
    /\ IF EnergyElecRaises(kh.e1, kh.e_coul)
       THEN kh' = [kh EXCEPT !.pc = "raised"]
       ELSE kh' = [kh EXCEPT !.pc = "returned",
                             !.out = <<kh.e1.re + kh.e_coul.re, kh.e_coul.re>>]
    /\ UNCHANGED <<oc, ck, ro, kvars, pk, cr>>

(***************************************************************************)
(* CASSCF.update_casdm and CASSCF.solve_approx_ci (lines 856-978), as the  *)
(* micro loop of kernel calls them (lines 409-421).  A CI vector is a      *)
(* record of a value and of where it comes from; overlaps and CI-gradient  *)
(* norms are in units of 1/100.                                            *)
(***************************************************************************)
ci_grad_trust_region == 3
OvlpOne == 100
FullResponseAbove == 7

\* the capabilities of the CI back end
Solvers == [approx_kernel : BOOLEAN, contract_2e : BOOLEAN, absorb_h1e : BOOLEAN]

Max(a, b) == IF a > b THEN a ELSE b

\* a tolerance capped by conv_tol instead of floored by it
ApproxTolCapped(has_norm_gorb, ng) ==
    IF has_norm_gorb
    THEN Some(IF (ng * ng) \div 10 < conv_tol THEN (ng * ng) \div 10 ELSE conv_tol)
    ELSE None

\* solve_approx_ci, lines 931-934: the tolerance of the approximate CI solve
ApproxTol(has_norm_gorb, ng) ==
    IF has_norm_gorb THEN Some(Max(conv_tol, (ng * ng) \div 10)) ELSE None

\* a strategy choice that uses the full kernel only if both primitives are missing
ApproxStrategyEither(fs) ==
    IF fs.approx_kernel THEN "approx_kernel"
    ELSE IF ~fs.contract_2e /\ ~fs.absorb_h1e THEN "kernel"
    ELSE "response"

\* solve_approx_ci, lines 935-948: the strategy
ApproxStrategy(fs) ==
    IF fs.approx_kernel THEN "approx_kernel"
    ELSE IF ~(fs.contract_2e /\ fs.absorb_h1e) THEN "kernel"
    ELSE "response"

\* solve_approx_ci: what it calls and returns, for the vector ci1 and the
\* gradient norm gn that the back end produces
solve_approx_ci(fs, space, has_norm_gorb, ng, ci1, gn) ==
    LET st == ApproxStrategy(fs)
    IN  [strategy |-> st,
         tol |-> ApproxTol(has_norm_gorb, ng),
         max_cycle |-> IF st = "kernel" THEN Some(space) ELSE None,
         full |-> st = "response" /\ space > FullResponseAbove,
         tol_handed |-> st # "response" \/ space > FullResponseAbove,
         ci1 |-> [val |-> ci1, from |-> st],
         g |-> IF st = "response" THEN Some(gn) ELSE None]

\* a guard that forgets the absolute value of the overlap
TrustRegionNoAbs(ovlp, gn) == OvlpOne - ovlp > gn * ci_grad_trust_region

\* update_casdm, line 915: 1-abs(ovlp) > norm_g * self.ci_grad_trust_region
OutOfTrustRegion(ovlp, gn) == OvlpOne - Abs(ovlp) > gn * ci_grad_trust_region

\* update_casdm, lines 918-919: fcivec.ravel() + g, renormalized
LinearCorrection(ci0, gn) == [val |-> ci0.val + gn + 1, from |-> "linear"]

\* update_casdm, lines 911-922
update_casdm(fs, space, has_norm_gorb, ng, ci0, ci1, gn, ovlp) ==
    LET r == solve_approx_ci(fs, space, has_norm_gorb, ng, ci1, gn)
        c == IF r.g # None /\ OutOfTrustRegion(ovlp, The(r.g))
             THEN LinearCorrection(ci0, The(r.g))
             ELSE r.ci1
    IN  [solve |-> r, casdm1 |-> make_rdm12(c), gci |-> r.g, fcivec |-> c]

SpaceSet == {4, 8}
GorbSet == {0, 4, 12}
OvlpSet == {-95, 40, 90, 100}
GciSet == {0, 2, 30}

NoUpdate ==
    [solve |-> [strategy |-> "none", tol |-> None, max_cycle |-> None, full |-> FALSE,
                tol_handed |-> FALSE,
                ci1 |-> [val |-> 0, from |-> "none"], g |-> None],
     casdm1 |-> 0, gci |-> None, fcivec |-> [val |-> 0, from |-> "none"]]

CrIdle ==
    [pc |-> "idle", fs |-> [approx_kernel |-> FALSE, contract_2e |-> FALSE,
                            absorb_h1e |-> FALSE],
     space |-> 4, envs |-> FALSE, norm_gorb |-> 0, ci0 |-> [val |-> 0, from |-> "none"],
     ci1 |-> 0, gn |-> 0, ovlp |-> OvlpOne, out |-> NoUpdate, norm_gci |-> Some(-1)]

CrInit ==
    \E fs \in Solvers, sp \in SpaceSet, env \in BOOLEAN, ng \in GorbSet :
    \E c0 \in CIVals, c1 \in CIVals, gn \in GciSet, ov \in OvlpSet :
        cr = [CrIdle EXCEPT !.pc = "call", !.fs = fs, !.space = sp, !.envs = env,
                            !.norm_gorb = ng, !.ci0 = [val |-> c0, from |-> "exact"],
                            !.ci1 = c1, !.gn = gn, !.ovlp = ov]

\* kernel, lines 414-421: the conversion of the debug line for norm_gci,
\* %5.3g for a number and %s for None
GciFormat(gci) == IF gci # None THEN "%5.3g" ELSE "%s"

\* a number format applied to None raises TypeError
FormatRaises(fmt, v) == fmt = "%5.3g" /\ v = None

\* kernel, lines 409-421: the call of update_casdm and the record of the
\* norm of the CI gradient
UpdateCasdm ==
    /\ cr.pc = "call"
    /\ LET r == update_casdm(cr.fs, cr.space, cr.envs, cr.norm_gorb, cr.ci0,
                             cr.ci1, cr.gn, cr.ovlp)
           n == IF r.gci # None THEN Some(The(r.gci)) ELSE None
       IN  cr' = [cr EXCEPT !.pc = IF FormatRaises(GciFormat(r.gci), n)
                                   THEN "raised" ELSE "done",
                            !.out = r, !.norm_gci = n]
    /\ UNCHANGED <<oc, ck, ro, kvars, pk, kh>>

(***************************************************************************)
(* rotate_orb_cc (lines 206-339), step by step.  The rotation parameters   *)
(* have one component, so a vector is a signed number and its norm and its *)
(* largest absolute component are its absolute value.  Gradient norms are  *)
(* in units of 5e-4.                                                       *)
(***************************************************************************)
MaxHop == 3
MaxInner == 2
MaxYield == 2

ah_grad_trust_region == 3
ah_start_tol == 5000
ah_lindep == 1
KfSmall == 1

Min(a, b) == IF a < b THEN a ELSE b

\* the arguments conv_tol_grad and max_stepsize of rotate_orb_cc
RotConvTolGrad == 10
RotStepCap == 2

\* casscf as rotate_orb_cc reads it
RotOptions ==
    [with_dep4 : BOOLEAN, df_or_uhf : BOOLEAN, max_cycle_micro_inner : 1..MaxInner,
     ah_max_cycle : {MaxHop}, ah_start_cycle : {2}]

\* gen_g_hop at the identity: the gradient g_orb
RotGradSet == {1, 1800}

\* gorb_update at a yielded rotation: the keyframe gradient
KfSet == {2, 6000}

\* ciah.davidson_cc: the steps dxi with their Hessian images hdxi
StepSet == {<<1, -1800>>, <<-4, 24>>}

\* ciah.davidson_cc: what it yields as its iterate number n
Iterates(n) ==
    {[ah_end |-> e, ihop |-> n, res |-> r, seig |-> sg, dxi |-> st[1], hdxi |-> st[2]] :
        e \in BOOLEAN, r \in {2, 5200}, sg \in {0, 5}, st \in StepSet}

\* ciah.davidson_cc with tol, max_cycle and lindep: the iterate after which
\* it stops
DavidsonEnds(it, c) ==
    it.ah_end \/ it.ihop = c.ah_max_cycle \/ it.seig < ah_lindep

\* an acceptance test without the linear-dependence clause
AcceptNoLindep(it, c, start_tol, start_cycle) ==
    \/ it.ah_end
    \/ it.ihop = c.ah_max_cycle
    \/ (it.res < start_tol /\ it.ihop >= start_cycle)

\* rotate_orb_cc, lines 266-269: the iterate is used as a rotation step
Accept(it, c, start_tol, start_cycle) ==
    \/ it.ah_end
    \/ it.ihop = c.ah_max_cycle
    \/ (it.res < start_tol /\ it.ihop >= start_cycle)
    \/ it.seig < ah_lindep

\* a clipping that leaves the Hessian image as it is
ClipStepOnly(dxi, hdxi, cap) ==
    IF Abs(dxi) > cap
    THEN [dxi |-> (dxi * cap) \div Abs(dxi), hdxi |-> hdxi, scaled |-> TRUE]
    ELSE [dxi |-> dxi, hdxi |-> hdxi, scaled |-> FALSE]

\* rotate_orb_cc, lines 271-278: scale = max_stepsize / dxmax
Clip(dxi, hdxi, cap) ==
    IF Abs(dxi) > cap
    THEN [dxi |-> (dxi * cap) \div Abs(dxi), hdxi |-> (hdxi * cap) \div Abs(dxi),
          scaled |-> TRUE]
    ELSE [dxi |-> dxi, hdxi |-> hdxi, scaled |-> FALSE]

\* an inner loop that ignores the cap on the accepted steps
InnerBreakNoCap(imic, ng, ngkf, c) ==
    \/ (imic > 1 /\ ng > ngkf * ah_grad_trust_region)
    \/ 10 * ng < 3 * RotConvTolGrad

\* rotate_orb_cc, lines 290-294: the two break statements of the inner loop
InnerBreak(imic, ng, ngkf, c) ==
    \/ (imic > 1 /\ ng > ngkf * ah_grad_trust_region)
    \/ (imic >= c.max_cycle_micro_inner \/ 10 * ng < 3 * RotConvTolGrad)

\* rotate_orb_cc, lines 316-318: the keyframe gradient is out of the trust region
OutOfTrust(gkf1, gorb, ngorb, ngkf, ngkf0) ==
    /\ Abs(gkf1 - gorb) > ngorb * ah_grad_trust_region
    /\ Abs(gkf1) > ngkf
    /\ Abs(gkf1) > ngkf0 * ah_grad_trust_region

\* a fallback condition that does not look at the keyframe norm
FallbackAnyNorm(c, ngkf) == ~c.with_dep4 \/ c.df_or_uhf

\* rotate_orb_cc, lines 321-323: the conservative rotation is taken
Fallback(c, ngkf) == (~c.with_dep4 /\ ngkf > KfSmall) \/ c.df_or_uhf

NoIterate ==
    [ah_end |-> FALSE, ihop |-> 0, res |-> 0, seig |-> 0, dxi |-> 0, hdxi |-> 0]

RoIdle ==
    [pc |-> "idle",
     c |-> [with_dep4 |-> FALSE, df_or_uhf |-> FALSE, max_cycle_micro_inner |-> 1,
            ah_max_cycle |-> MaxHop, ah_start_cycle |-> 2],
     g_orb |-> 0, g_orb0 |-> 0, g_kf |-> 0,
     norm_gorb |-> 0, norm_gkf |-> 0, norm_gkf0 |-> 0,
     dr |-> 0, dxi |-> 0, hdxi |-> 0,
     ah_start_tol |-> 0, ah_start_cycle |-> 0, imic |-> 0, ihop |-> 0,
     it |-> NoIterate, accepted |-> FALSE, scaled |-> FALSE, broke |-> FALSE,
     yields |-> 0, out |-> <<0, 0>>, evals |-> <<>>]

RoInit == \E c \in RotOptions : ro = [RoIdle EXCEPT !.pc = "new", !.c = c]

\* rotate_orb_cc, lines 252-257: the head of the while loop
DavidsonBegin(r) ==
    [r EXCEPT !.pc = "dav",
              !.ah_start_tol = Min(r.norm_gorb * ah_grad_trust_region, ah_start_tol),
              !.g_orb0 = r.g_orb, !.imic = 0, !.ihop = 0]

\* rotate_orb_cc, lines 212-257: the first run of the generator, to the
\* first Davidson iterate
RotStart ==
    /\ ro.pc = "new"
    /\ \E g \in RotGradSet :
        ro' = DavidsonBegin([ro EXCEPT !.g_orb = g, !.g_kf = g,
                                       !.norm_gorb = Abs(g), !.norm_gkf = Abs(g),
                                       !.norm_gkf0 = Abs(g), !.dr = 0,
                                       !.ah_start_cycle = ro.c.ah_start_cycle])
    /\ UNCHANGED <<oc, ck, kvars, pk, kh, cr>>

\* rotate_orb_cc, lines 259-301: one Davidson iterate; it is accepted or
\* not; the inner loop goes on, or it ends and the rotation of dr is yielded
RotIterate ==
    /\ ro.pc = "dav"
    /\ \E it \in Iterates(ro.ihop + 1) :
        LET acc == Accept(it, ro.c, ro.ah_start_tol, ro.ah_start_cycle)
            cl == IF acc THEN Clip(it.dxi, it.hdxi, RotStepCap)
                  ELSE [dxi |-> it.dxi, hdxi |-> it.hdxi, scaled |-> FALSE]
            g1 == IF acc THEN ro.g_orb + cl.hdxi ELSE ro.g_orb
            dr1 == IF acc THEN ro.dr + cl.dxi ELSE ro.dr
            im1 == IF acc THEN ro.imic + 1 ELSE ro.imic
            brk == acc /\ InnerBreak(im1, Abs(g1), ro.norm_gkf, ro.c)
            end == brk \/ DavidsonEnds(it, ro.c)
        IN  ro' = [ro EXCEPT !.pc = IF end THEN "y301" ELSE "dav",
                             !.it = it, !.ihop = it.ihop, !.accepted = acc,
                             !.scaled = cl.scaled, !.broke = brk,
                             !.dxi = cl.dxi, !.hdxi = cl.hdxi,
                             !.g_orb = g1, !.norm_gorb = Abs(g1), !.dr = dr1,
                             !.imic = im1,
                             !.yields = IF end THEN ro.yields + 1 ELSE ro.yields,
                             !.out = IF end THEN <<dr1, ro.g_orb0>> ELSE ro.out,
                             !.evals = <<>>]
    /\ UNCHANGED <<oc, ck, kvars, pk, kh, cr>>

\* rotate_orb_cc, lines 303-339: resumed after the yield of line 301.  The
\* keyframe gradient is evaluated at the yielded rotation; out of the trust
\* region the conservative rotation is yielded, or the gradient is evaluated
\* again with the dep4 expansion; then the while loop goes round.
RotResume ==
    /\ ro.pc = "y301"
    /\ ro.yields < MaxYield
    /\ \E gk \in KfSet :
        LET first == [at |-> ro.dr, dep4 |-> ro.c.with_dep4, g |-> gk]
        IN  IF OutOfTrust(gk, ro.g_orb, ro.norm_gorb, ro.norm_gkf, ro.norm_gkf0)
            THEN IF Fallback(ro.c, ro.norm_gkf)
                 THEN ro' = [ro EXCEPT !.pc = "y326", !.evals = <<first>>,
                                       !.yields = ro.yields + 1,
                                       !.out = <<ro.dr - ro.dxi, ro.g_kf - ro.hdxi>>]
                 ELSE \E gk4 \in (IF ro.c.with_dep4 THEN {gk} ELSE KfSet) :
                      ro' = DavidsonBegin(
                              [ro EXCEPT !.evals = <<first, [at |-> ro.dr, dep4 |-> TRUE,
                                                             g |-> gk4]>>,
                                         !.g_orb = gk4, !.g_kf = gk4,
                                         !.norm_gorb = Abs(gk4), !.norm_gkf = Abs(gk4),
                                         !.ah_start_cycle = ro.ah_start_cycle - 1])
            ELSE ro' = DavidsonBegin(
                         [ro EXCEPT !.evals = <<first>>,
                                    !.g_orb = gk, !.g_kf = gk,
                                    !.norm_gorb = Abs(gk), !.norm_gkf = Abs(gk),
                                    !.ah_start_cycle = ro.ah_start_cycle - 1])
    /\ UNCHANGED <<oc, ck, kvars, pk, kh, cr>>

\* rotate_orb_cc, line 327: resumed after the yield of line 326, the break
\* ends the generator
RotEnd ==
    /\ ro.pc = "y326"
    /\ ro' = [ro EXCEPT !.pc = "done"]
    /\ UNCHANGED <<oc, ck, kvars, pk, kh, cr>>

\* kernel, line 432: rota.close() at a yield
RotClose ==
    /\ ro.pc \in {"y301", "y326"}
    /\ ro' = [ro EXCEPT !.pc = "closed"]
    /\ UNCHANGED <<oc, ck, kvars, pk, kh, cr>>

(***************************************************************************)
(* CASSCF.kernel (lines 693-711): the method that calls the driver and     *)
(* saves what it returns in the attributes converged, e_tot, e_cas, ci,    *)
(* mo_coeff and mo_energy.  The driver raises RuntimeError out of          *)
(* CASSCF.casci (lines 735-738) or returns its six results.                *)
(***************************************************************************)

\* CASSCF.__init__, lines 641-646: the attributes of a new object
FreshSaved ==
    [converged |-> FALSE, e_tot |-> None, e_cas |-> None, ci |-> None,
     mo_coeff |-> "mf", mo_energy |-> "mf"]

\* the attributes after an earlier call that returned
EarlierSaved ==
    {[converged |-> cv, e_tot |-> Some(e), e_cas |-> Some(ECas(e)), ci |-> Some(c),
      mo_coeff |-> "opt", mo_energy |-> "eps"] :
        cv \in BOOLEAN, e \in EnergySet, c \in CIVals}

\* the argument mo_coeff of CASSCF.kernel
MoArgs == {None, Some("mf"), Some("guess"), Some("opt")}

\* what the driver does: it raises, or it returns
KernOutcomes ==
    {[raised |-> TRUE, converged |-> FALSE, e_tot |-> 0, ci |-> 0]}
        \cup [raised : {FALSE}, converged : BOOLEAN, e_tot : EnergySet, ci : CIVals]

\* CASSCF.kernel, lines 694-697: the attribute mo_coeff after the entry
EntryMoCoeff(saved, arg) == IF arg = None THEN saved ELSE The(arg)

CkIdle ==
    [pc |-> "idle", before |-> FreshSaved, self |-> FreshSaved, arg |-> None,
     given |-> "mf"]

CkInit ==
    \E sv \in {FreshSaved} \cup EarlierSaved, a \in MoArgs :
        ck = [CkIdle EXCEPT !.pc = "call", !.before = sv, !.self = sv, !.arg = a]

\* CASSCF.kernel, lines 693-711
CasscfKernel ==
    /\ ck.pc = "call"
    /\ LET entered == [ck.self EXCEPT !.mo_coeff = EntryMoCoeff(ck.self.mo_coeff, ck.arg)]
           given == IF ck.arg = None THEN ck.self.mo_coeff ELSE The(ck.arg)
       IN  \E o \in KernOutcomes :
            IF o.raised
            THEN ck' = [ck EXCEPT !.pc = "raised", !.self = entered, !.given = given]
            ELSE ck' = [ck EXCEPT !.pc = "returned", !.given = given,
                                  !.self = [converged |-> o.converged,
                                            e_tot |-> Some(o.e_tot),
                                            e_cas |-> Some(ECas(o.e_tot)),
                                            ci |-> Some(o.ci),
                                            mo_coeff |-> "new",
                                            mo_energy |-> "eps"]]
    /\ UNCHANGED <<kvars, pk, kh, cr, ro, oc>>

(***************************************************************************)
(* khf.get_occ (pbc/scf/khf.py, lines 200-235).  The orbital energies are  *)
(* a sequence over the k-points of sequences over the orbitals.            *)
(***************************************************************************)
MaxKpts == 2
MaxOrb == 2

OccEnergies == {0, 1, 2}

\* mo_energy_kpts.ravel()
RECURSIVE Ravel(_)
Ravel(m) == IF m = <<>> THEN <<>> ELSE Head(m) \o Ravel(Tail(m))

\* the insertion of x into an ascending sequence
RECURSIVE Insert(_, _)
Insert(x, sq) ==
    IF sq = <<>> THEN <<x>>
    ELSE IF x <= Head(sq) THEN <<x>> \o sq
    ELSE <<Head(sq)>> \o Insert(x, Tail(sq))

\* np.sort
RECURSIVE Sort(_)
Sort(sq) == IF sq = <<>> THEN <<>> ELSE Insert(Head(sq), Sort(Tail(sq)))

\* sq[i] of Python, i counted from 0, a negative i from the end
PyIndex(sq, i) == IF i < 0 THEN sq[Len(sq) + i + 1] ELSE sq[i + 1]

\* get_occ, line 214: mo_occ_kpts[mo_energy_kpts <= fermi] = 2
Occupy(e, fermi) ==
    [k \in 1..Len(e) |-> [i \in 1..Len(e[k]) |-> IF e[k][i] <= fermi THEN 2 ELSE 0]]

\* get_occ, lines 206-214
get_occ(nelectron, e) ==
    LET nkpts == Len(e)
        nocc == (nelectron * nkpts) \div 2
        sorted == Sort(Ravel(e))
        fermi == PyIndex(sorted, nocc - 1)
    IN  [nocc |-> nocc, fermi |-> fermi, mo_occ |-> Occupy(e, fermi)]

OcIdle == [pc |-> "idle", nelectron |-> 0, e |-> <<>>, out |-> <<>>, nocc |-> 0, fermi |-> 0]

OcInit ==
    \E nk \in 1..MaxKpts, no \in 1..MaxOrb :
    \E e \in [1..nk -> [1..no -> OccEnergies]] :
    \E ne \in 1..(2 * no) :
        oc = [OcIdle EXCEPT !.pc = "call", !.nelectron = ne, !.e = e]

\* khf.get_occ
GetOcc ==
    /\ oc.pc = "call"
    /\ LET r == get_occ(oc.nelectron, oc.e)
       IN  oc' = [oc EXCEPT !.pc = "done", !.out = r.mo_occ, !.nocc = r.nocc,
                            !.fermi = r.fermi]
    /\ UNCHANGED <<kvars, pk, kh, cr, ro, ck>>

(***************************************************************************)
(* Specifications.                                                         *)
(***************************************************************************)
vars == <<kvars, pk, kh, cr, ro, ck, oc>>

KernelIdle ==
    /\ casscf = [canonicalization |-> TRUE, natorb |-> FALSE,
                 internal_rotation |-> FALSE, ncas |-> NMO - 1,
                 max_cycle_macro |-> 0, max_cycle_micro |-> 0,
                 with_dep4 |-> FALSE,
                 max_stepsize |-> ConfiguredStepsize, _max_stepsize |-> None]
    /\ ncall = 1
    /\ prior = NoResult
    /\ pc = "idle"
    /\ error = "none"
    /\ result = NoResult
    /\ did = <<>>
    /\ bound = {}
    /\ mo = NoMO
    /\ fcivec = NoCI
    /\ eris = NoEris
    /\ e_tot = 0 /\ e_ci = 0 /\ mo_energy = "none"
    /\ conv = FALSE /\ imacro = 0 /\ imicro = 0
    /\ norm_gorb = 0 /\ norm_gorb0 = 0 /\ norm_ddm = 0
    /\ casdm1 = 0 /\ casdm1_last = 0 /\ casdm1_prev = 0
    /\ de = 0 /\ elast = 0 /\ u = 0
    /\ r0 = None /\ max_stepsize = 0
    /\ rota = NoRota

\* the CASSCF driver
Init ==
    /\ casscf \in Options
    /\ ncall = 1
    /\ prior = NoResult
    /\ KernelEntry(NoMO, NoCI)
    /\ pk = PackIdle
    /\ kh = KhfIdle
    /\ cr = CrIdle /\ ro = RoIdle /\ ck = CkIdle /\ oc = OcIdle

Next ==
    \/ KernelInit
    \/ ShortcutReturn
    \/ LoopSetup
    \/ MacroBegin
    \/ LoopExit
    \/ MicroFirst
    \/ MicroResume
    \/ MicroFallback
    \/ RotaStop
    \/ MacroEnd
    \/ Finish
    \/ CallAgain

Spec == Init /\ [][Next]_vars

\* the packing of the rotation parameters
InitPack == KernelIdle /\ PackInit /\ kh = KhfIdle /\ cr = CrIdle /\ ro = RoIdle /\ ck = CkIdle /\ oc = OcIdle

NextPack == Unpack \/ Pack

SpecPack == InitPack /\ [][NextPack]_vars

\* the k-point energy evaluation
InitKhf == KernelIdle /\ pk = PackIdle /\ KhfInit /\ cr = CrIdle /\ ro = RoIdle /\ ck = CkIdle /\ oc = OcIdle

NextKhf == energy_elec

SpecKhf == InitKhf /\ [][NextKhf]_vars

\* the CI-response update of the micro loop
InitUpd == KernelIdle /\ pk = PackIdle /\ kh = KhfIdle /\ CrInit /\ ro = RoIdle /\ ck = CkIdle /\ oc = OcIdle

NextUpd == UpdateCasdm

SpecUpd == InitUpd /\ [][NextUpd]_vars

\* the micro-loop generator
InitRot ==
    /\ KernelIdle /\ pk = PackIdle /\ kh = KhfIdle /\ cr = CrIdle /\ RoInit
    /\ ck = CkIdle /\ oc = OcIdle

NextRot == RotStart \/ RotIterate \/ RotResume \/ RotEnd \/ RotClose

SpecRot == InitRot /\ [][NextRot]_vars

\* the method that calls the driver
InitCall ==
    /\ KernelIdle /\ pk = PackIdle /\ kh = KhfIdle /\ cr = CrIdle /\ ro = RoIdle
    /\ CkInit /\ oc = OcIdle

NextCall == CasscfKernel

SpecCall == InitCall /\ [][NextCall]_vars

\* the k-point occupations
InitOcc ==
    /\ KernelIdle /\ pk = PackIdle /\ kh = KhfIdle /\ cr = CrIdle /\ ro = RoIdle
    /\ ck = CkIdle /\ OcInit

NextOcc == GetOcc

SpecOcc == InitOcc /\ [][NextOcc]_vars

TypeOK ==
    /\ pc \in {"idle", "start", "casci0", "while", "for", "endfor", "exit",
               "returned", "raised"}
    /\ error \in {"none", "RuntimeError", "NameError"}
    /\ conv \in BOOLEAN
    /\ imacro \in 0..MaxMacro
    /\ imicro \in 0..(MaxMicro + 1)

(***************************************************************************)
(* Properties of kernel.                                                   *)
(***************************************************************************)
Calls(names) == \E i \in 1..Len(did) : did[i] \in names

\* the largest number of micro steps of one macro iteration
MicroMax == IF casscf.max_cycle_micro > 1 THEN casscf.max_cycle_micro ELSE 1

\* the configuration of the CASCI-only shortcut
ShortcutConfig == casscf.ncas = NMO /\ casscf.internal_rotation = FALSE

\* the three-part convergence criterion on the current locals
Criterion ==
    /\ Abs(de) < conv_tol
    /\ norm_gorb0 < conv_tol_grad
    /\ norm_ddm < 3 * conv_tol_grad

\* after the exact CI solve of a macro iteration, conv is set exactly when
\* the criterion holds, and de is the change of e_tot in that iteration
C1_TestExact ==
    (pc = "while" /\ imacro >= 1) => ((conv <=> Criterion) /\ elast = e_tot)

\* once conv is set no further macro iteration starts
C1_LoopStops == [][conv => imacro' <= imacro]_vars

\* outside the shortcut, converged=True is returned only after the criterion held
C1_OnlyThen ==
    (pc = "returned" /\ result.converged /\ ~ShortcutConfig) => (conv /\ Criterion)

\* a set conv is returned as converged=True
C1_Returned == [][(pc = "exit" /\ conv) => (pc' = "returned" /\ result'.converged)]_vars

\* C1: a macro iteration sets converged exactly when the energy change, the
\* gradient norm of its first micro step and the density-matrix change are
\* below their tolerances; the loop then stops and converged=True is returned,
\* also on macro iteration max_cycle_macro; outside the shortcut converged=True
\* is never returned otherwise.
C1_AsClaimed == []C1_TestExact /\ C1_LoopStops /\ []C1_OnlyThen /\ C1_Returned

\* the states a call stops in
Stopped == pc \in {"returned", "raised"}

\* CONVERGED or MAX-ITERS-REACHED has been reached: the loop was left, or
\* the shortcut returned, or the code after the loop raised
ReachedTerminal ==
    pc = "exit" \/ pc = "returned" \/ (pc = "raised" /\ error = "NameError")

\* the fatal error of an ambiguous CI solution
FatalCI == pc = "raised" /\ error = "RuntimeError"

\* an upper bound of the number of steps a call has left
Rank ==
    LET W == MicroMax + 3
        B == (casscf.max_cycle_macro - imacro) * W
    IN  CASE pc = "start" -> casscf.max_cycle_macro * W + 4
          [] pc = "casci0" -> casscf.max_cycle_macro * W + 3
          [] pc = "while" -> B + 2
          [] pc = "for" -> B + 4 + (MicroMax - imicro)
          [] pc = "endfor" -> B + 3
          [] pc = "exit" -> 1
          [] OTHER -> 0

C2_Counts ==
    /\ imacro <= casscf.max_cycle_macro
    /\ pc = "for" => imicro < MicroMax
    /\ pc = "endfor" => (1 <= imicro /\ imicro <= MicroMax)
    /\ (pc \in {"while", "exit"} /\ imacro >= 1) => (1 <= imicro /\ imicro <= MicroMax)

\* C2 (as claimed): a call that has stopped has reached CONVERGED or
\* MAX-ITERS-REACHED, after at most max_cycle_macro macro iterations of 1 to
\* max(1, max_cycle_micro) micro steps each.
C2_AsClaimed == (Stopped => ReachedTerminal) /\ C2_Counts

\* C2 (amended): every step of a call lowers a non-negative bound of the
\* steps it has left and a call that has not stopped can step, so every call
\* stops; it stops having reached CONVERGED or MAX-ITERS-REACHED or with the
\* fatal ambiguous-CI error, after at most max_cycle_macro macro iterations,
\* each of at least one and at most max(1, max_cycle_micro) micro steps.
C2_Terminates ==
    /\ [](Rank >= 0 /\ C2_Counts)
    /\ []((~Stopped /\ pc # "idle") => ENABLED Next)
    /\ [](Stopped => (ReachedTerminal \/ FatalCI))
    /\ [][~Stopped => Rank' < Rank]_vars

C2_Witness ==
    /\ pc = "exit" /\ ~conv
    /\ imacro = MaxMacro /\ imicro = MaxMicro

\* the loop is left unconverged only at the cap
C3_AtCap == (pc = "exit" /\ ~conv) => imacro = casscf.max_cycle_macro

\* C3: when max_cycle_macro macro iterations have run without the convergence
\* test succeeding (max_cycle_macro = 0 included), kernel raises no error and
\* returns converged=False with the energy, CI vector and orbitals of the
\* last exact CI solve.
C3_AsClaimed ==
    [][(pc = "exit" /\ ~conv) =>
          /\ pc' = "returned" /\ error' = "none"
          /\ result'.converged = FALSE
          /\ result'.e_tot = e_tot /\ result'.e_ci = e_ci
          /\ result'.ci.val = fcivec.val /\ result'.mo.rot = mo.rot]_vars

\* the shortcut as it is when canonicalization is enabled
C4_WhenCanonicalizing ==
    (ShortcutConfig /\ casscf.canonicalization) =>
        /\ pc \in {"start", "casci0", "returned", "raised"}
        /\ imacro = 0

\* C4: with ncas == nmo and internal_rotation False, kernel performs no macro
\* iteration (no micro loop, rotation, ERIS rebuild or second CI solve) and
\* returns the energy of the initial CASCI solve with canonicalized orbitals,
\* for every setting of the other options.
C4_AsClaimed ==
    ShortcutConfig =>
        /\ imacro = 0 /\ rota = NoRota
        /\ pc = "raised" => error = "RuntimeError"
        /\ pc = "returned" => (result.e_tot = e_tot /\ result.mo.canon)

\* C5: a second call that starts from the converged output of the first (zero
\* rotation, the CI solve reproducing its energy and densities) returns
\* converged=True and the same energy within conv_tol, with no macro
\* iteration beyond the one that performs the convergence check.
C5_Idempotent ==
    ncall > 1 =>
        /\ imacro <= 1
        /\ pc # "raised"
        /\ pc = "exit" => conv
        /\ mo.rot = prior.mo.rot
        /\ pc = "returned" =>
              (result.converged /\ Abs(result.e_tot - prior.e_tot) < conv_tol)

C5_Witness ==
    /\ ncall = 2 /\ pc = "returned" /\ result.converged
    /\ imacro = 1 /\ ~ShortcutConfig /\ prior.e_tot = 3

\* what follows an exact CI solve in the step that made it
AfterCasci == {"make_rdm12", "conv_test", "dump_chk", "callback", "pack_uniq_var"}

\* C8: when an exact CI solve (at the start or at the end of a macro
\* iteration) returns a non-scalar energy, kernel stops at once with the
\* fatal error: the energy is never taken as e_tot, the solve is the last
\* thing the step did, no result is returned and nothing happens afterwards.
C8_FatalCI ==
    /\ [](e_tot # NonScalarE)
    /\ [](FatalCI => /\ did[Len(did)] = "casci"
                     /\ ~Calls(AfterCasci)
                     /\ result = NoResult)
    /\ [][FatalCI => UNCHANGED kvars]_vars

C8_Witness ==
    /\ FatalCI /\ imacro = 2
    /\ did = <<"close", "rotate_mo", "ao2mo", "casci">>

\* canonicalize is called exactly when canonicalization is enabled
C10_OnlyWhenEnabled ==
    [][pc = "exit" => (Calls({"canonicalize"})' <=> casscf.canonicalization)]_vars

\* C10: whenever kernel reaches a terminal state it returns the six-field
\* tuple, for every setting of canonicalization and natorb: canonicalization
\* is applied only when enabled and the return succeeds both when it is
\* disabled and when natorb is enabled.
C10_AsClaimed ==
    [][pc = "exit" =>
          /\ pc' = "returned"
          /\ result' \in [converged : {conv}, e_tot : {e_tot}, e_ci : {e_ci},
                          ci : {fcivec'}, mo : {mo'}, mo_energy : {"eps", "none"}]
          /\ Calls({"canonicalize"})' <=> casscf.canonicalization]_vars

(***************************************************************************)
(* Properties of the packing of the rotation parameters.                   *)
(***************************************************************************)
PkAll == (0..(pk.nmo - 1)) \X (0..(pk.nmo - 1))

PkMask == uniq_var_indices(pk.nmo, pk.ncore, pk.ncas, pk.frozen, pk.internal_rotation)

\* C6: for every partition, internal_rotation setting and frozen
\* specification, pack_uniq_var(unpack_uniq_var(v)) == v for every v of the
\* length of the selected pairs, and unpack_uniq_var(v) is antisymmetric
\* with a zero diagonal.
C6_RoundTrip ==
    /\ pk.pc = "packed" => pk.out = pk.v
    /\ pk.pc \in {"unpacked", "packed"} =>
          /\ \A pq \in PkAll : pk.mat[pq] = -pk.mat[<<pq[2], pq[1]>>]
          /\ \A p \in 0..(pk.nmo - 1) : pk.mat[<<p, p>>] = 0

C6_Witness ==
    /\ pk.pc = "packed" /\ Len(pk.v) = 3 /\ pk.internal_rotation
    /\ pk.v[1] # pk.v[2]
    /\ \E pq \in PkAll : pk.mat[pq] # 0

\* the classes of the orbitals and the frozen orbitals
PkCore == 0..(pk.ncore - 1)
PkActive == pk.ncore..(pk.ncore + pk.ncas - 1)
PkVirtual == (pk.ncore + pk.ncas)..(pk.nmo - 1)
PkFrozen ==
    IF pk.frozen.kind = "count" THEN 0..(pk.frozen.n - 1)
    ELSE IF pk.frozen.kind = "list" THEN pk.frozen.idx
    ELSE {}

\* the pairs that may rotate, the later class first
PkRotating ==
    {pq \in PkAll :
        /\ pq[1] \notin PkFrozen /\ pq[2] \notin PkFrozen
        /\ \/ pq[1] \in PkActive /\ pq[2] \in PkCore
           \/ pq[1] \in PkVirtual /\ pq[2] \in PkCore
           \/ pq[1] \in PkVirtual /\ pq[2] \in PkActive
           \/ /\ pk.internal_rotation
              /\ pq[1] \in PkActive /\ pq[2] \in PkActive /\ pq[2] < pq[1]}

\* C7: in every matrix unpack_uniq_var produces the core-core block, the
\* virtual-virtual block, the active-active block (unless internal_rotation)
\* and the rows and columns of the frozen orbitals are zero; the selected
\* pairs are exactly the core-active, core-virtual and active-virtual pairs
\* (and the strictly lower-triangular active-active pairs with
\* internal_rotation) that involve no frozen orbital.
C7_Blocks ==
    /\ PkMask = PkRotating
    /\ Len(pk.v) = Cardinality(PkRotating)
    /\ pk.pc \in {"unpacked", "packed"} =>
          \A pq \in PkAll :
              /\ (pq[1] \in PkCore /\ pq[2] \in PkCore) => pk.mat[pq] = 0
              /\ (pq[1] \in PkVirtual /\ pq[2] \in PkVirtual) => pk.mat[pq] = 0
              /\ (pq[1] \in PkActive /\ pq[2] \in PkActive /\ ~pk.internal_rotation)
                    => pk.mat[pq] = 0
              /\ (pq[1] \in PkFrozen \/ pq[2] \in PkFrozen) => pk.mat[pq] = 0
              /\ pk.mat[pq] # 0 <=> (pq \in PkRotating \/ <<pq[2], pq[1]>> \in PkRotating)

C7_Witness ==
    /\ pk.pc = "unpacked" /\ pk.nmo = 3 /\ pk.ncore = 1 /\ pk.ncas = 1
    /\ pk.frozen.kind = "count" /\ pk.frozen.n = 1
    /\ Len(pk.v) = 1 /\ pk.mat[<<2, 1>>] # 0

(***************************************************************************)
(* Properties of khf.energy_elec.                                          *)
(***************************************************************************)
\* C9: energy_elec raises whenever the imaginary part of e1 or of e_coul
\* exceeds the tolerance in magnitude, for either sign; it never returns a
\* real energy obtained by dropping such an imaginary part.
C9_AsClaimed ==
    /\ (kh.pc # "call" /\ (Abs(kh.e1.im) > ImagTol \/ Abs(kh.e_coul.im) > ImagTol))
          => kh.pc = "raised"
    /\ kh.pc = "returned" => (Abs(kh.e1.im) <= ImagTol /\ Abs(kh.e_coul.im) <= ImagTol)

\* what the code does: it raises exactly when e_coul.imag > 1.e-10
C9_AsCoded ==
    kh.pc # "call" => (kh.pc = "raised" <=> kh.e_coul.im > ImagTol)

(***************************************************************************)
(* Properties of the integral cache and of the micro loop.                 *)
(***************************************************************************)
CountIn(seq, name) == Cardinality({i \in 1..Len(seq) : seq[i] = name})

\* the positions of kernel at which ERIS is consumed by the next step
Consuming == pc \in {"casci0", "while", "for", "endfor", "exit"}

\* C11: ERIS is built exactly once at the start and exactly once after each
\* rotate_mo, and wherever it is consumed (gradient and Hessian build, CI
\* response update, exact CASCI solve, canonicalization) it is the one built
\* from the current orbitals mo, never from orbitals rotated since.
C11_ErisCurrent ==
    /\ [](Consuming => (eris.built /\ eris.mo = mo))
    /\ []((pc = "for" /\ rota.pc = "y301" /\ casscf.with_dep4)
              => eris.paaa = Some(rota.dr))
    /\ [][/\ CountIn(did', "ao2mo")
                = (IF pc = "start" THEN 1 ELSE 0) + CountIn(did', "rotate_mo")
          /\ \A i \in 1..Len(did') :
                did'[i] = "rotate_mo" => (i < Len(did') /\ did'[i + 1] = "ao2mo")
          /\ (eris'.mo # eris.mo /\ pc' # "start") => CountIn(did', "ao2mo") = 1
          /\ (mo'.gen # mo.gen /\ pc \in {"for", "endfor", "while"})
                => CountIn(did', "rotate_mo") = 1]_vars

C11_Witness ==
    /\ pc = "for" /\ rota.pc = "y301" /\ imacro = 2
    /\ mo.gen = 1 /\ mo.rot = 1 /\ eris.mo = mo

\* without with_dep4 no step of the micro loop changes ERIS
C12_WithoutDep4 == [][(pc = "for" /\ ~casscf.with_dep4) => eris' = eris]_vars

\* C12: within a macro iteration ERIS is immutable: between its construction
\* by ao2mo and its replacement after the rotation no micro step, gradient
\* evaluation or update_casdm writes to it or adds data to it, for every
\* configuration, with_dep4 included.
C12_AsClaimed == [][pc = "for" => eris' = eris]_vars

\* a step that performs a micro step
MicroStep == imicro' = imicro + 1

\* a step that completes a macro iteration
MacroDone == pc = "endfor" /\ pc' = "while"

\* the macro-level callback comes once, after the convergence test and the checkpoint
MacroCallback ==
    /\ CountIn(did', "callback") = 1
    /\ \E i, j, k \in 1..Len(did') :
          /\ i < j /\ j < k
          /\ did'[i] = "conv_test" /\ did'[j] = "dump_chk" /\ did'[k] = "callback"

\* what the code does: the micro step that reaches the cap calls no callback
C13_AsCoded ==
    [][/\ MicroStep =>
            CountIn(did', "callback")
                = (IF imicro' >= casscf.max_cycle_micro THEN 0 ELSE 1)
       /\ MacroDone => MacroCallback]_vars

\* C13: the callback is invoked exactly once for every micro step performed
\* and exactly once for every macro iteration performed, after that
\* iteration's convergence test and checkpoint, so the number of invocations
\* is the number of micro steps plus the number of macro iterations.
C13_AsClaimed ==
    [][/\ MicroStep => CountIn(did', "callback") = 1
       /\ MacroDone => MacroCallback]_vars

\* a step that starts a macro iteration other than the first of its call
LaterMacroBegin == pc = "while" /\ pc' = "for" /\ imacro >= 1

\* C14: at the start of each macro iteration after the first the trust-region
\* cap handed to the micro loop is half the cap of the previous macro
\* iteration if that iteration raised the total energy by more than conv_tol,
\* and else the configured max_stepsize; the configured max_stepsize is never
\* changed.
C14_Scheduler ==
    /\ [][LaterMacroBegin =>
            /\ max_stepsize' = (IF de > conv_tol THEN max_stepsize \div 2
                                ELSE casscf.max_stepsize)
            /\ casscf'._max_stepsize = {max_stepsize'}]_vars
    /\ [][MacroDone => de' = e_tot' - e_tot]_vars
    /\ [][casscf'.max_stepsize = casscf.max_stepsize]_vars
    /\ [](casscf.max_stepsize = ConfiguredStepsize)

C14_Witness ==
    /\ pc = "for" /\ imacro = 2 /\ de = 3
    /\ 2 * max_stepsize = ConfiguredStepsize

\* the calls of a completed macro iteration, in order
MacroSequence ==
    <<"close", "rotate_mo", "ao2mo", "casci", "make_rdm12", "conv_test",
      "dump_chk", "callback", "pack_uniq_var">>

\* C15: every macro iteration ends with, in order, the rotation of the
\* orbitals, the rebuild of ERIS, the exact CI solve at the new orbitals, the
\* density matrices of that exact CI vector, and the convergence test (the
\* iteration is cut short after the solve only by the fatal error of an
\* ambiguous CI solution).  The energy and the CI vector that are tested and
\* returned come from an exact solve at the returned orbitals, never from
\* the approximate CI-response update.
C15_ExactSolve ==
    /\ [][pc = "endfor" =>
            /\ mo' = [gen |-> mo.gen + 1, rot |-> IF mo.rot = 0 THEN u ELSE mo.rot,
                      canon |-> mo.canon /\ u = 0]
            /\ eris'.mo = mo'
            /\ \/ /\ pc' = "while"
                  /\ did' = MacroSequence
                  /\ fcivec'.kind = "exact"
                  /\ casdm1' = 10 * fcivec'.val
                  /\ norm_ddm' = Abs(casdm1' - casdm1_last)
                  /\ conv' <=> (/\ Abs(e_tot' - e_tot) < conv_tol
                                /\ norm_gorb0 < conv_tol_grad
                                /\ norm_ddm' < 3 * conv_tol_grad)
               \/ /\ pc' = "raised" /\ error' = "RuntimeError"
                  /\ did' = SubSeq(MacroSequence, 1, 4)]_vars
    /\ []((pc \in {"while", "exit"}) =>
            /\ fcivec.kind = "exact"
            /\ casdm1 = 10 * fcivec.val /\ casdm1_last = casdm1
            /\ eris.mo = mo /\ e_ci = e_tot - 5)
    /\ [](pc = "returned" =>
            /\ fcivec.kind = "canon"
            /\ result.ci = fcivec /\ result.mo = mo
            /\ result.e_tot = e_tot /\ result.e_ci = e_ci
            /\ casdm1 = 10 * result.ci.val \/ imacro = 0)
    /\ [][(pc = "exit" /\ pc' = "returned") =>
            (fcivec'.val = fcivec.val /\ mo'.rot = mo.rot)]_vars

C15_Witness ==
    /\ pc = "while" /\ imacro = 2 /\ imicro = 2 /\ conv
    /\ fcivec.kind = "exact" /\ mo.rot = 1

\* a micro step after which the micro loop of its macro iteration performs
\* no further micro step: the loop is left, or the generator is about to end
LastMicroStep == MicroStep /\ (pc' = "endfor" \/ rota'.pc = "y326")

\* what the code does: update_casdm runs after every micro step that the
\* step cap does not stop, the last one included when the loop ends by the
\* local convergence check or by the end of the generator
C16_AsCoded ==
    [][MicroStep =>
          CountIn(did', "update_casdm")
              = (IF imicro' >= casscf.max_cycle_micro THEN 0 ELSE 1)]_vars

\* C16: in every macro iteration update_casdm runs after each micro step
\* except the last one, that is (number of micro steps - 1) times, whichever
\* way the micro loop exits (step cap, local convergence check, or the
\* generator ending).
C16_AsClaimed ==
    [][MicroStep =>
          CountIn(did', "update_casdm") = (IF LastMicroStep THEN 0 ELSE 1)]_vars

\* a step that resumes the generator after the yield of a micro step
Resumed == pc = "for" /\ rota.pc = "y301" /\ MicroStep

Updated == cr.pc \in {"done", "raised"}

\* C18, as the code has it: the tolerance of the approximate CI solve is the
\* larger of conv_tol and a tenth of the squared orbital-gradient norm, so it
\* is never tighter than conv_tol; without norm_gorb in envs there is none.
C18_Tolerance ==
    Updated =>
        LET t == cr.out.solve.tol
            sq == (cr.norm_gorb * cr.norm_gorb) \div 10
        IN  /\ cr.envs => /\ t # None
                          /\ The(t) >= conv_tol
                          /\ The(t) >= sq
                          /\ The(t) \in {conv_tol, sq}
            /\ ~cr.envs => t = None

C18_Witness ==
    /\ Updated
    /\ cr.envs
    /\ cr.out.solve.tol_handed
    /\ The(cr.out.solve.tol) > conv_tol

\* C18 as stated: the tolerance handed to the CI back end is always <= conv_tol
C18_AsClaimed ==
    (Updated /\ cr.out.solve.tol_handed /\ cr.out.solve.tol # None)
        => The(cr.out.solve.tol) <= conv_tol

\* C19: solve_approx_ci uses approx_kernel if the back end has it, else the
\* full kernel with max_cycle = ci_response_space unless both contract_2e and
\* absorb_h1e are there, else the explicit response; it returns no gradient
\* exactly in the first two cases, and then update_casdm keeps the solver's
\* vector whatever the overlap and kernel records norm_gci as None without
\* raising.
C19_Strategy ==
    Updated =>
        LET r == cr.out.solve
            both == cr.fs.contract_2e /\ cr.fs.absorb_h1e
        IN  /\ cr.fs.approx_kernel =>
                   r.strategy = "approx_kernel" /\ r.max_cycle = None
            /\ (~cr.fs.approx_kernel /\ ~both) =>
                   r.strategy = "kernel" /\ r.max_cycle = Some(cr.space)
            /\ (~cr.fs.approx_kernel /\ both) => r.strategy = "response"
            /\ (r.g = None) <=> (r.strategy \in {"approx_kernel", "kernel"})
            /\ r.g = None =>
                   /\ cr.out.fcivec = r.ci1
                   /\ cr.out.fcivec.val = cr.ci1
                   /\ cr.out.gci = None
                   /\ cr.norm_gci = None
                   /\ cr.pc = "done"
            /\ r.g # None => cr.norm_gci = Some(cr.gn) /\ cr.pc = "done"

\* the full kernel stands in for a back end with only one of the two
\* primitives, at an overlap where the guard would have replaced the vector
C19_Witness ==
    /\ cr.pc = "done"
    /\ cr.out.solve.strategy = "kernel"
    /\ cr.fs.contract_2e /\ ~cr.fs.absorb_h1e
    /\ OutOfTrustRegion(cr.ovlp, cr.gn)
    /\ cr.out.fcivec.from = "kernel"
    /\ cr.norm_gci = None

\* C20: in update_casdm, when the CI gradient g is available and
\* 1 - |<ci0|ci1>| > |g| * ci_grad_trust_region, the vector returned is the
\* renormalized ci0 + g; otherwise it is the vector of the CI-response
\* solver, unchanged; the density matrices returned are those of the vector
\* returned.
C20_Guard ==
    Updated =>
        LET r == cr.out.solve
            out == r.g # None
                   /\ OvlpOne - (IF cr.ovlp < 0 THEN -cr.ovlp ELSE cr.ovlp)
                        > cr.gn * ci_grad_trust_region
        IN  /\ out => /\ cr.out.fcivec.from = "linear"
                      /\ cr.out.fcivec = LinearCorrection(cr.ci0, cr.gn)
            /\ ~out => /\ cr.out.fcivec = r.ci1
                       /\ cr.out.fcivec.val = cr.ci1
                       /\ cr.out.fcivec.from = r.strategy
            /\ cr.out.casdm1 = 10 * cr.out.fcivec.val

\* the overlap is close to -1: the vector only changed sign and is kept
C20_Kept ==
    /\ Updated
    /\ cr.out.solve.g # None
    /\ cr.ovlp < 0
    /\ cr.gn > 0
    /\ cr.out.fcivec.from = "response"
    /\ cr.out.casdm1 # make_rdm12(LinearCorrection(cr.ci0, cr.gn))

\* the guard replaces the vector
C20_Replaced ==
    /\ Updated
    /\ cr.out.fcivec.from = "linear"
    /\ cr.out.casdm1 # make_rdm12(cr.out.solve.ci1)

(***************************************************************************)
(* The micro-loop generator rotate_orb_cc.                                 *)
(***************************************************************************)

\* C21: a Davidson iterate is used as a rotation step if and only if the
\* solver signals convergence, or its iteration count equals ah_max_cycle, or
\* (its residual norm < ah_start_tol and its iteration count >= ah_start_cycle),
\* or seig < ah_lindep, where ah_start_tol is the smaller of ah_grad_trust_region
\* times the gradient norm the run started with and the configured value; an
\* iterate with seig < ah_lindep is always used and the rotation is yielded.
C21_Acceptance ==
    [][(ro.pc = "dav" /\ ro' # ro) =>
         LET it == ro'.it
             tol == IF ro.norm_gkf * ah_grad_trust_region < ah_start_tol
                    THEN ro.norm_gkf * ah_grad_trust_region ELSE ah_start_tol
             used == /\ ro'.imic = ro.imic + 1
                     /\ ro'.dr = ro.dr + ro'.dxi
                     /\ ro'.g_orb = ro.g_orb + ro'.hdxi
         IN  /\ ro.ah_start_tol = tol
             /\ it.ihop = ro.ihop + 1
             /\ used <=> \/ it.ah_end
                         \/ it.ihop = ro.c.ah_max_cycle
                         \/ (it.res < tol /\ it.ihop >= ro.ah_start_cycle)
                         \/ it.seig < ah_lindep
             /\ ~used => /\ ro'.imic = ro.imic
                         /\ ro'.dr = ro.dr
                         /\ ro'.g_orb = ro.g_orb
             /\ it.seig < ah_lindep =>
                    /\ used
                    /\ ro'.pc = "y301"
                    /\ ro'.out[1] = ro'.dr
       ]_vars

\* a step is used for no other reason than the linear dependence, in a run
\* whose tolerance is the configured one
C21_Witness ==
    /\ ro.pc = "y301"
    /\ ro.accepted
    /\ ro.it.seig < ah_lindep
    /\ ~ro.it.ah_end
    /\ ro.it.ihop < ro.c.ah_max_cycle
    /\ ro.it.res >= ro.ah_start_tol
    /\ ro.ah_start_tol = ah_start_tol
    /\ ro.dr # 0

\* C22: every step added to the accumulated rotation has largest absolute
\* component <= max_stepsize; a raw step above the cap and its Hessian image
\* are multiplied by the same factor max_stepsize / max|dxi| before they are
\* added to the rotation and to the running gradient; a step within the cap
\* is added as it is.
C22_Clipped ==
    [][(ro.pc = "dav" /\ ro'.accepted /\ ro' # ro) =>
         LET raw == ro'.it
             dxmax == IF raw.dxi < 0 THEN -raw.dxi ELSE raw.dxi
             added == ro'.dr - ro.dr
             gadded == ro'.g_orb - ro.g_orb
         IN  /\ added <= RotStepCap /\ -added <= RotStepCap
             /\ IF dxmax > RotStepCap
                THEN /\ added * dxmax = raw.dxi * RotStepCap
                     /\ gadded * dxmax = raw.hdxi * RotStepCap
                ELSE /\ added = raw.dxi
                     /\ gadded = raw.hdxi
       ]_vars

\* a step of -4 has been added as -2, its Hessian image halved
C22_Witness ==
    /\ ro.pc \in {"dav", "y301"}
    /\ ro.accepted
    /\ ro.it.dxi < -RotStepCap
    /\ ro.dxi = -RotStepCap
    /\ ro.hdxi # ro.it.hdxi
    /\ ro.hdxi * ro.it.dxi = ro.it.hdxi * ro.dxi

\* the Davidson iteration has produced its last iterate
DavidsonOver == DavidsonEnds(ro'.it, ro.c)

\* C23, as the code has it: after an accepted step the inner loop stops and
\* the rotation is yielded as soon as the running gradient norm is below
\* 0.3 * conv_tol_grad, or the number of accepted steps has reached
\* max_cycle_micro_inner, or, from the second accepted step on, the running
\* gradient norm exceeds ah_grad_trust_region times the last keyframe norm;
\* otherwise it goes on while the Davidson iteration does.  No yield is
\* preceded by more than max(1, max_cycle_micro_inner) accepted steps.
C23_InnerStop ==
    [][(ro.pc = "dav" /\ ro'.accepted /\ ro' # ro) =>
         LET stop == \/ 10 * ro'.norm_gorb < 3 * RotConvTolGrad
                     \/ ro'.imic >= ro.c.max_cycle_micro_inner
                     \/ (ro'.imic > 1
                           /\ ro'.norm_gorb > ro.norm_gkf * ah_grad_trust_region)
             most == IF ro.c.max_cycle_micro_inner > 1
                     THEN ro.c.max_cycle_micro_inner ELSE 1
         IN  /\ stop => /\ ro'.pc = "y301"
                        /\ ro'.yields = ro.yields + 1
                        /\ ro'.out[1] = ro'.dr
             /\ (~stop /\ ~DavidsonOver) => ro'.pc = "dav"
             /\ ro'.imic <= most
       ]_vars

\* the loop stops at the second accepted step while the Davidson iteration
\* could go on
C23_Witness ==
    /\ ro.pc = "y301"
    /\ ro.accepted
    /\ ro.imic = 2
    /\ ro.norm_gorb > ro.norm_gkf * ah_grad_trust_region
    /\ ~DavidsonEnds(ro.it, ro.c)

\* C23 as stated: after an accepted step the inner loop stops as soon as the
\* accumulated step is tiny, or the running gradient norm is below
\* 0.3 * conv_tol_grad, or max_cycle_micro_inner steps are accepted, or the
\* running gradient norm exceeds ah_grad_trust_region times the keyframe norm
C23_AsClaimed ==
    [][(ro.pc = "dav" /\ ro'.accepted /\ ro' # ro) =>
         LET stop == \/ ro'.dr = 0
                     \/ 10 * ro'.norm_gorb < 3 * RotConvTolGrad
                     \/ ro'.imic >= ro.c.max_cycle_micro_inner
                     \/ ro'.norm_gorb > ro.norm_gkf * ah_grad_trust_region
         IN  stop => ro'.pc = "y301"
       ]_vars

\* C24: after each yield the keyframe gradient is evaluated at the yielded
\* rotation.  If it is out of the trust region, then under (with_dep4 off and
\* the last keyframe norm > 5e-4) or density fitting or UHF the generator
\* yields one rotation built from the accumulated step less the last accepted
\* step and then ends; otherwise it evaluates the gradient again with the dep4
\* expansion and goes on.  Within the trust region it goes on.  Nothing raises.
C24_Keyframe ==
    [][(ro.pc = "y301" /\ ro'.pc # "closed" /\ ro' # ro) =>
         LET e == ro'.evals
             gk == e[1].g
             dg == IF gk - ro.g_orb < 0 THEN ro.g_orb - gk ELSE gk - ro.g_orb
             ngk == IF gk < 0 THEN -gk ELSE gk
             viol == /\ dg > ro.norm_gorb * ah_grad_trust_region
                     /\ ngk > ro.norm_gkf
                     /\ ngk > ro.norm_gkf0 * ah_grad_trust_region
             fb == (~ro.c.with_dep4 /\ ro.norm_gkf > KfSmall) \/ ro.c.df_or_uhf
         IN  /\ Len(e) >= 1
             /\ e[1].at = ro.out[1]
             /\ e[1].dep4 = ro.c.with_dep4
             /\ (viol /\ fb) =>
                    /\ ro'.pc = "y326"
                    /\ Len(e) = 1
                    /\ ro.accepted
                    /\ ro'.out = <<ro.dr - ro.dxi, ro.g_kf - ro.hdxi>>
                    /\ ro'.yields = ro.yields + 1
             /\ (viol /\ ~fb) =>
                    /\ ro'.pc = "dav"
                    /\ Len(e) = 2
                    /\ e[2].dep4
                    /\ e[2].at = ro.out[1]
                    /\ ro'.g_orb = e[2].g /\ ro'.g_kf = e[2].g
                    /\ ro'.dr = ro.dr
             /\ ~viol =>
                    /\ ro'.pc = "dav"
                    /\ Len(e) = 1
                    /\ ro'.g_orb = gk /\ ro'.g_kf = gk
                    /\ ro'.dr = ro.dr
       ]_vars
    /\ [][ro.pc = "y326" => ro'.pc \in {"y326", "done", "closed"}]_vars

\* the conservative rotation has been yielded because the keyframe norm is
\* above 5e-4, without density fitting or UHF
C24_Witness ==
    /\ ro.pc = "y326"
    /\ ~ro.c.df_or_uhf
    /\ ro.dxi # 0
    /\ ro.out[1] = ro.dr - ro.dxi

\* the gradient has been evaluated again with dep4 although with_dep4 is off
C24_Reevaluated ==
    /\ ro.pc = "dav"
    /\ Len(ro.evals) = 2
    /\ ~ro.c.with_dep4
    /\ ro.evals[2].g # ro.evals[1].g

\* C25 as stated: after a keyframe trust-region violation the gradient is
\* never evaluated again at the same rotation with the same expansion mode
\* as the evaluation that has just failed the check
C25_AsClaimed ==
    Len(ro.evals) = 2 =>
        <<ro.evals[2].at, ro.evals[2].dep4>> # <<ro.evals[1].at, ro.evals[1].dep4>>

\* C25, what holds: the second evaluation changes the mode only if with_dep4
\* is off; with with_dep4 on it repeats the first one and finds the same
\* gradient
C25_AsCoded ==
    Len(ro.evals) = 2 =>
        /\ ro.evals[2].at = ro.evals[1].at
        /\ ro.evals[2].dep4
        /\ ro.evals[1].dep4 = ro.c.with_dep4
        /\ ro.c.with_dep4 => ro.evals[2] = ro.evals[1]

(***************************************************************************)
(* The micro-loop generator in the macro loop.                             *)
(***************************************************************************)

\* C26: each macro iteration creates a fresh generator whose accumulated
\* rotation is zero; each rotation it yields is that of the step accumulated
\* since the macro iteration began (what was accumulated at one yield is
\* still in the next); the driver closes and discards the generator, then
\* applies one rotation, the last one yielded, and rotates nowhere else in
\* the loop.
C26_OneRotation ==
    [][/\ (pc = "while" /\ pc' = "for") =>
              /\ rota'.pc = "new"
              /\ rota'.dr = 0 /\ rota'.dr0 = 0
              /\ mo' = mo
       /\ (pc = "for" /\ imicro' = imicro + 1) =>
              /\ \/ (rota'.pc = "y301" /\ u' = rota'.dr)
                 \/ (rota'.pc = "y326" /\ u' = rota'.dr0 /\ rota'.dr0 <= rota'.dr)
              /\ rota'.dr >= rota.dr
              /\ rota'.dr0 >= rota.dr0
              /\ mo' = mo
       /\ (pc = "for" /\ imicro' = imicro) => (u' = u /\ mo' = mo)
       /\ (pc = "endfor" /\ pc' # "endfor") =>
              /\ did'[1] = "close" /\ did'[2] = "rotate_mo"
              /\ CountIn(did', "rotate_mo") = 1
              /\ rota' = NoRota
              /\ u' = u
              /\ mo'.gen = mo.gen + 1
              /\ mo'.rot = (IF mo.rot = 0 THEN u ELSE mo.rot)
       /\ (pc \in {"while", "for"}) => CountIn(did', "rotate_mo") = 0
      ]_vars

\* the second macro iteration has yielded twice, the second time with no
\* new step: the rotation of the first yield is still there
C26_Witness ==
    /\ pc = "for"
    /\ imacro = 2 /\ imicro = 2
    /\ mo.gen = 1
    /\ rota.pc = "y301"
    /\ rota.dr = 1 /\ rota.dr0 = 1
    /\ u = 1

\* C27 as stated: in the first macro iteration of every kernel call the cap
\* handed to the generator is the configured max_stepsize, whatever the
\* initial CASCI energy and whatever an earlier call left in _max_stepsize
C27_AsClaimed ==
    [][(pc = "while" /\ pc' = "for" /\ imacro' = 1)
          => max_stepsize' = casscf.max_stepsize]_vars

\* C27, what holds: in the first macro iteration de is the initial CASCI
\* total energy itself; if it is > conv_tol the cap is half of what
\* _max_stepsize held (the configured value if None)
C27_AsCoded ==
    [][(pc = "while" /\ pc' = "for" /\ imacro' = 1) =>
          /\ de = e_tot
          /\ max_stepsize' =
               (IF e_tot > conv_tol
                THEN (IF casscf._max_stepsize = None THEN casscf.max_stepsize
                      ELSE The(casscf._max_stepsize)) \div 2
                ELSE casscf.max_stepsize)]_vars

\* C28: with with_dep4, whenever the exact gradient evaluation after a yield
\* takes the integral block cached on ERIS by update_casdm, that block was
\* computed for the current orbitals and for the rotation the gradient is
\* evaluated at, the one of the micro step just yielded; with with_dep4 the
\* cached block is there at every such evaluation.
C28_FreshBlock ==
    (pc \in {"for", "endfor"} /\ rota.pc \in {"y301", "y326"}) =>
        /\ \A b \in rota.g4.first \cup rota.g4.again :
              b.cached => /\ b.at = <<mo.gen, imicro - 1>>
                          /\ b.u = rota.kf.u
                          /\ eris.mo = mo
        /\ (casscf.with_dep4 /\ rota.kf # NoKf /\ imicro > 1) =>
              /\ rota.g4.first # None
              /\ \A b \in rota.g4.first : b.cached
        /\ ~casscf.with_dep4 =>
              /\ rota.g4.first = None
              /\ \A b \in rota.g4.again : ~b.cached

\* in the second macro iteration the gradient after the second yield has
\* used the block that update_casdm cached at that yield; the third yield
\* ends the micro loop
C28_Witness ==
    /\ pc = "endfor" /\ rota.pc = "y301"
    /\ casscf.with_dep4
    /\ imacro = 2 /\ imicro = 3
    /\ rota.g4.first # None
    /\ The(rota.g4.first).cached
    /\ The(rota.g4.first).at = <<1, 2>>
    /\ The(rota.g4.first).u = 1

(***************************************************************************)
(* C29: if CASSCF.kernel fails with the error of an ambiguous CI solution, *)
(* the attributes converged, e_tot, e_cas, ci, mo_coeff and mo_energy all  *)
(* hold the values they had before the call, whether or not mo_coeff was   *)
(* passed.  The code assigns self.mo_coeff = mo_coeff (line 697) before    *)
(* the driver runs, so a call that passes mo_coeff and fails leaves the    *)
(* argument in the attribute: the property is violated.                    *)
(***************************************************************************)
C29_AsClaimed == ck.pc = "raised" => ck.self = ck.before

\* what the code keeps: a failed call changes no attribute but mo_coeff, and
\* mo_coeff holds the orbitals the driver was started from
C29_AsCoded ==
    ck.pc = "raised" =>
        /\ ck.self.converged = ck.before.converged
        /\ ck.self.e_tot = ck.before.e_tot
        /\ ck.self.e_cas = ck.before.e_cas
        /\ ck.self.ci = ck.before.ci
        /\ ck.self.mo_energy = ck.before.mo_energy
        /\ ck.self.mo_coeff = ck.given
        /\ (ck.arg = None => ck.self.mo_coeff = ck.before.mo_coeff)

\* a failed call that was given orbitals other than the saved ones
C29_Failed ==
    /\ ck.pc = "raised" /\ ck.arg = Some("guess")
    /\ ck.before.mo_coeff = "opt" /\ ck.before.converged

(***************************************************************************)
(* C30: for any orbital energies over the k-points, degenerate energies at *)
(* the Fermi level included, get_occ gives occupation 2 to exactly         *)
(* (nelectron * nkpts) // 2 entries and 0 to all others.  The code         *)
(* occupies every entry with an energy <= fermi (line 214), so entries     *)
(* degenerate with the highest occupied one are occupied too: the property *)
(* is violated.                                                            *)
(***************************************************************************)
Entries(m) == {ki \in (1..Len(m)) \X (1..MaxOrb + 1) : ki[2] <= Len(m[ki[1]])}

Occupied(m) == {ki \in Entries(m) : m[ki[1]][ki[2]] = 2}

C30_AsClaimed ==
    oc.pc = "done" =>
        /\ Cardinality(Occupied(oc.out)) = (oc.nelectron * Len(oc.e)) \div 2
        /\ \A ki \in Entries(oc.out) \ Occupied(oc.out) : oc.out[ki[1]][ki[2]] = 0

\* what the code keeps: every entry is 0 or 2, the occupied entries are the
\* ones at or below the Fermi level, and they are exactly nocc when the
\* energy above the highest occupied one is strictly higher
C30_AsCoded ==
    oc.pc = "done" =>
        LET e == Sort(Ravel(oc.e))
            n == oc.nocc
        IN  /\ \A ki \in Entries(oc.out) : oc.out[ki[1]][ki[2]] \in {0, 2}
            /\ Occupied(oc.out) = {ki \in Entries(oc.e) : oc.e[ki[1]][ki[2]] <= oc.fermi}
            /\ (n >= 1 /\ (n = Len(e) \/ e[n] < e[n + 1]))
                   => Cardinality(Occupied(oc.out)) = n

\* two orbitals of one k-point with the same energy and two electrons
C30_Degenerate ==
    /\ oc.pc = "done" /\ oc.nelectron = 2
    /\ oc.e = <<(<<1, 1>>)>>
    /\ oc.out = <<(<<2, 2>>)>>

====
